---- MODULE Spec2Model ----
(***************************************************************************)
(* Shift-scheduling backend (backend/app/main.py, backend/app/holidays_jp.py) *)
(*                                                                         *)
(* Dates are day numbers; day 0 is a Monday, so date.weekday() is d % 7    *)
(* (0 = Monday .. 6 = Sunday).  Times of day are minutes after midnight;   *)
(* a NULL column is the value NULL.  Hours are kept in minutes, so that    *)
(* "x hours <= weekly_hours" is compared as minutes against hours * 60.    *)
(*                                                                         *)
(* Every HTTP handler is one action: it runs in one database session and   *)
(* the requests are served one at a time.  A query issued inside a handler *)
(* sees the rows the handler has already added (the session autoflushes).  *)
(* The specification of concurrent generation is the exception: there the  *)
(* handler is cut at its awaits and two sessions take turns.               *)
(***************************************************************************)
EXTENDS Integers, Sequences, FiniteSets, TLC

VARIABLES
    holidays,      \* dates the holiday calendar reports as public holidays
    today,         \* date.today() of the check-in / check-out / approval requests
    roles,         \* Role rows       : id -> [dept, break_minutes, is_active]
    shifts,        \* Shift rows      : sequence of shift records, in query order
    employees,     \* Employee rows   : id -> [dept, role, weekly_hours, daily_max_hours]
    schedules,     \* Schedule rows   : set of records
    nextId,        \* next primary key handed out by the database
    leaves,        \* LeaveRequest rows
    compoffs,      \* CompOffRequest rows
    tracking,      \* CompOffTracking rows: employee id -> record
    details,       \* CompOffDetail rows (append-only log), a sequence
    checkins,      \* CheckInOut rows
    attendance,    \* Attendance rows
    otreqs,        \* OvertimeRequest rows
    response,      \* what the last request returned
    lastDeleted,   \* history: ids of the Schedule rows the last request deleted
    nreq,          \* history: number of requests served so far
    sessions       \* generate_schedules requests in flight: request -> position and rows added

vars == <<holidays, today, roles, shifts, employees, schedules, nextId, leaves,
          compoffs, tracking, details, checkins, attendance, otreqs, response,
          lastDeleted, nreq, sessions>>

\* what no handler served on its own changes
config == <<holidays, today, roles, shifts, employees, sessions>>

\* every persisted table (the configuration tables are never written here)
tables == <<schedules, leaves, compoffs, tracking, details, checkins,
            attendance, otreqs>>

-----------------------------------------------------------------------------
(* Bounds of the model *)

NumDays == 7            \* dates 0 .. NumDays-1
MaxRequests == 3        \* requests served in one behaviour

Dates == 0 .. (NumDays - 1)
NULL == 0 - 1

Max(a, b) == IF a >= b THEN a ELSE b
Min(a, b) == IF a <= b THEN a ELSE b

-----------------------------------------------------------------------------
(* Calendar: backend/app/holidays_jp.py *)

weekday(d) == d % 7

\* a calendar without public holidays
never_holiday(d) == FALSE

is_holiday(d) == d \in holidays

is_weekend(d) == weekday(d) >= 5

\* the while loop of get_shifts_required_for_week: counts the weekday holidays
\* from current_date up to week_end
RECURSIVE CountWeekdayHolidays(_, _, _)
CountWeekdayHolidays(current_date, week_end, weekday_holidays) ==
    IF current_date > week_end THEN weekday_holidays
    ELSE CountWeekdayHolidays(current_date + 1, week_end,
            IF weekday(current_date) < 5 /\ is_holiday(current_date)
            THEN weekday_holidays + 1 ELSE weekday_holidays)

\* a variant that counts the holidays of all seven days of the week
shifts_required_counting_weekends(week_start) ==
    Max(4, 5 - Cardinality({d \in week_start .. (week_start + 6) : is_holiday(d)}))

get_shifts_required_for_week(week_start) ==
    Max(4, 5 - CountWeekdayHolidays(week_start, week_start + 6, 0))

\* the while loop of get_week_info, accumulating the three counters
RECURSIVE WeekInfoLoop(_, _, _)
WeekInfoLoop(current_date, week_end, info) ==
    IF current_date > week_end THEN info
    ELSE WeekInfoLoop(current_date + 1, week_end,
            [info EXCEPT
               !.weekend_count = IF is_weekend(current_date) THEN @ + 1 ELSE @,
               !.holiday_count = IF is_holiday(current_date) THEN @ + 1 ELSE @,
               !.weekday_holiday_count =
                   IF is_holiday(current_date) /\ ~is_weekend(current_date)
                   THEN @ + 1 ELSE @])

get_week_info(week_start) ==
    LET info == WeekInfoLoop(week_start, week_start + 6,
                   [week_start |-> week_start, week_end |-> week_start + 6,
                    weekend_count |-> 0, holiday_count |-> 0,
                    weekday_holiday_count |-> 0, required_shifts |-> 5])
    IN  [info EXCEPT !.required_shifts = Max(4, 5 - info.weekday_holiday_count)]

-----------------------------------------------------------------------------
(* Constraint validators: backend/app/main.py *)

week_start_of(d) == d - weekday(d)

\* the rows of one employee in the Monday-to-Sunday week of target_date,
\* without the row named by exclude_schedule_id ("if exclude_schedule_id:")
WeekRows(rows, employee_id, target_date, exclude_schedule_id) ==
    {s \in rows : /\ s.emp = employee_id
                  /\ s.date >= week_start_of(target_date)
                  /\ s.date <= week_start_of(target_date) + 6
                  /\ (exclude_schedule_id = NULL \/ s.id # exclude_schedule_id)}

CoverageStatuses == {"scheduled", "leave", "comp_off_taken", "comp_off_earned",
                     "leave_half_morning", "leave_half_afternoon"}
WeekendRegularStatuses == {"scheduled", "leave", "leave_half_morning",
                           "leave_half_afternoon"}

weekday_coverage(rows, employee_id, target_date, exclude_schedule_id) ==
    Cardinality({s \in WeekRows(rows, employee_id, target_date, exclude_schedule_id) :
                    s.status \in CoverageStatuses /\ weekday(s.date) < 5})

\* a variant that counts the weekend comp-off rows as well
weekend_all_shifts(rows, employee_id, target_date, exclude_schedule_id) ==
    Cardinality({s \in WeekRows(rows, employee_id, target_date, exclude_schedule_id) :
                    s.status \in CoverageStatuses /\ weekday(s.date) >= 5})

weekend_regular_shifts(rows, employee_id, target_date, exclude_schedule_id) ==
    Cardinality({s \in WeekRows(rows, employee_id, target_date, exclude_schedule_id) :
                    s.status \in WeekendRegularStatuses /\ weekday(s.date) >= 5})

\* TRUE iff the validator returns (True, "")
validate_5_shifts_per_week(rows, employee_id, target_date, exclude_schedule_id) ==
    LET required_shifts == get_shifts_required_for_week(week_start_of(target_date))
        wc == weekday_coverage(rows, employee_id, target_date, exclude_schedule_id)
        we == weekend_regular_shifts(rows, employee_id, target_date, exclude_schedule_id)
    IN  IF weekday(target_date) >= 5
        THEN ~(wc >= required_shifts) /\ ~(wc + we >= required_shifts)
        ELSE ~(wc >= required_shifts)

\* sorted(list of dates) with duplicates removed
RECURSIVE SortedDates(_)
SortedDates(S) ==
    IF S = {} THEN << >>
    ELSE LET m == CHOOSE x \in S : \A y \in S : x <= y
         IN  <<m>> \o SortedDates(S \ {m})

\* the "longest consecutive sequence" loop, shared in shape by the validator
\* and by the generator
RECURSIVE LongestRunLoop(_, _, _, _)
LongestRunLoop(all_dates, i, current_consecutive, max_consecutive_found) ==
    IF i > Len(all_dates) THEN max_consecutive_found
    ELSE IF all_dates[i] - all_dates[i - 1] = 1
         THEN LongestRunLoop(all_dates, i + 1, current_consecutive + 1,
                             Max(max_consecutive_found, current_consecutive + 1))
         ELSE LongestRunLoop(all_dates, i + 1, 1, max_consecutive_found)

LongestRun(dateSet) == LongestRunLoop(SortedDates(dateSet), 2, 1, 1)

ConsecutiveStatuses == {"scheduled", "leave", "comp_off_taken",
                        "leave_half_morning", "leave_half_afternoon"}

DefaultMaxConsecutive == 5

validate_consecutive_shifts_limit(rows, employee_id, target_date, exclude_schedule_id, max_consecutive) ==
    LET existing == {s \in WeekRows(rows, employee_id, target_date, exclude_schedule_id) :
                        s.status \in ConsecutiveStatuses}
        all_dates == {s.date : s \in existing} \cup {target_date}
    IN  ~(LongestRun(all_dates) > max_consecutive)

-----------------------------------------------------------------------------
(* Rows *)

\* a Schedule row (backend/app/models.py, class Schedule)
ScheduleRow(id, dept, emp, role, shift, d, st, en, status) ==
    [id |-> id, dept |-> dept, emp |-> emp, role |-> role, shift |-> shift,
     date |-> d, start_time |-> st, end_time |-> en, status |-> status]

\* the calendar month of a date ("%Y-%m"): in the model's calendar the month
\* changes between day 3 and day 4
month_of(d) == IF d <= 3 THEN 0 ELSE 1

\* a variant that finds no row of the employee on the date
NoRowsOn(rows, employee_id, d) == {}

RowsOn(rows, employee_id, d) == {s \in rows : s.emp = employee_id /\ s.date = d}

\* .first() of a query: the row with the lowest primary key
FirstById(S) == CHOOSE x \in S : \A y \in S : x.id <= y.id

\* ORDER BY date LIMIT 1
FirstByDate(S) == CHOOSE x \in S : \A y \in S : x.date < y.date \/ (x.date = y.date /\ x.id <= y.id)

\* ORDER BY date DESC LIMIT 1
LastByDate(S) == CHOOSE x \in S : \A y \in S : x.date > y.date \/ (x.date = y.date /\ x.id <= y.id)

-----------------------------------------------------------------------------
(* generate_schedules: backend/app/main.py *)

AllDays == 0 .. 6

\* a variant in which every shift runs every day
every_day(shift) == AllDays

\* lines 5478-5506: a shift without schedule_config runs every day; once a
\* config exists, a weekday without an enabled entry is disabled
enabled_days(shift) ==
    IF ~shift.configured THEN AllDays ELSE shift.enabled

\* lines 5558-5571: the employees that may fill a shift, in query order
RECURSIVE EligibleLoop(_, _, _)
EligibleLoop(shift, empIds, acc) ==
    IF empIds = << >> THEN acc
    ELSE LET emp == Head(empIds)
             is_eligible == (employees[emp].role = NULL) \/ (employees[emp].role = shift.role)
         IN  EligibleLoop(shift, Tail(empIds), IF is_eligible THEN Append(acc, emp) ELSE acc)

\* the active employees of a department, ordered by id
DeptEmployees(department_id) ==
    SortedDates({e \in DOMAIN employees : employees[e].dept = department_id /\ employees[e].is_active})

eligible_for_shift(shift, department_id) == EligibleLoop(shift, DeptEmployees(department_id), << >>)

\* a variant that leaves the comp_off_earned rows out of the hour sums
WorkedStatuses == {"scheduled", "completed"}

HourStatuses == {"scheduled", "completed", "comp_off_earned"}

\* lines 5649-5719: status and times of the row made for an approved leave or
\* comp-off day; lrs / crs are the approved leave / comp-off requests found
\* a variant that marks every leave and comp-off day as a full day of leave
LeaveRowAlwaysLeave(rows, emp, current_date, lrs, crs) == [status |-> "leave", st |-> 0, en |-> 1439]

LeaveRowFor(rows, emp, current_date, lrs, crs) ==
    IF crs # {}
    THEN LET week == {s \in WeekRows(rows, emp, current_date, NULL) :
                         s.date # current_date /\ s.status \in HourStatuses}
             same == {s \in rows : s.emp = emp /\ weekday(s.date) = weekday(current_date)
                                     /\ s.status \in HourStatuses}
             week_ok == week # {} /\ FirstByDate(week).start_time # NULL /\ FirstByDate(week).end_time # NULL
             same_ok == same # {} /\ LastByDate(same).start_time # NULL /\ LastByDate(same).end_time # NULL
         IN  IF week_ok
             THEN [status |-> "comp_off_earned", st |-> FirstByDate(week).start_time, en |-> FirstByDate(week).end_time]
             ELSE IF same_ok
             THEN [status |-> "comp_off_earned", st |-> LastByDate(same).start_time, en |-> LastByDate(same).end_time]
             ELSE [status |-> "comp_off_earned", st |-> 0, en |-> 1439]
    ELSE IF FirstById(lrs).leave_type = "comp_off"
    THEN [status |-> "comp_off_taken", st |-> NULL, en |-> NULL]
    ELSE IF FirstById(lrs).duration_type = "half_day_morning"
    THEN [status |-> "leave_half_morning", st |-> 0, en |-> 720]
    ELSE IF FirstById(lrs).duration_type = "half_day_afternoon"
    THEN [status |-> "leave_half_afternoon", st |-> 720, en |-> 1439]
    ELSE [status |-> "leave", st |-> 0, en |-> 1439]

\* [s.date for s in rows] of a query ordered by date: one entry per row
RECURSIVE RowDates(_)
RowDates(S) ==
    IF S = {} THEN << >>
    ELSE LET r == FirstByDate(S) IN <<r.date>> \o RowDates(S \ {r})

\* list.append(d) followed by list.sort()
InsertDate(dates, d) ==
    LET before == SelectSeq(dates, LAMBDA x : x <= d)
        after == SelectSeq(dates, LAMBDA x : x > d)
    IN  before \o <<d>> \o after

\* lines 5754-5789: the generator's own consecutive-day check
\* week_dates keeps one entry per row (no removal of duplicates, unlike the
\* validator), current_date is appended when absent, then the list is sorted
GeneratorConsecutiveOk(rows, emp, current_date) ==
    LET week_schedules == {s \in WeekRows(rows, emp, current_date, NULL) : s.status \in HourStatuses}
        listed == RowDates(week_schedules)
        week_dates == IF \E s \in week_schedules : s.date = current_date
                      THEN listed
                      ELSE InsertDate(listed, current_date)
    IN  ~(LongestRunLoop(week_dates, 2, 1, 1) > 5)

\* lines 5822-5838: worked minutes of one existing row (gross minus the break of its role)
RowWorkMinutes(s) ==
    IF s.start_time # NULL /\ s.end_time # NULL
    THEN (s.end_time - s.start_time) - roles[s.role].break_minutes
    ELSE 0

RECURSIVE SumWorkMinutes(_)
SumWorkMinutes(S) ==
    IF S = {} THEN 0
    ELSE LET s == CHOOSE x \in S : TRUE IN RowWorkMinutes(s) + SumWorkMinutes(S \ {s})

\* a stored time that datetime.strptime(.., '%H:%M') rejects (the column is a
\* free String(5), e.g. "9am")
Unparsable == 0 - 2

\* lines 5840-5847
total_shift_minutes(shift) == shift.end_time - shift.start_time

shift_work_minutes(shift) == total_shift_minutes(shift) - roles[shift.role].break_minutes

\* a variant that charges the gross length of the shift, break included
MayAssignGrossHours(rows, emp, shift, current_date) ==
    LET existing_schedules == {s \in WeekRows(rows, emp, current_date, NULL) : s.status \in HourStatuses}
        existing_minutes == SumWorkMinutes(existing_schedules)
        existing_minutes_today == SumWorkMinutes({s \in existing_schedules : s.date = current_date})
    IN  /\ existing_minutes + total_shift_minutes(shift) <= employees[emp].weekly_hours * 60
        /\ existing_minutes_today + total_shift_minutes(shift) <= employees[emp].daily_max_hours * 60
        /\ validate_5_shifts_per_week(rows, emp, current_date, NULL)

\* lines 5870-5877: the three tests a 'scheduled' row must pass
MayAssign(rows, emp, shift, current_date) ==
    LET existing_schedules == {s \in WeekRows(rows, emp, current_date, NULL) : s.status \in HourStatuses}
        existing_minutes == SumWorkMinutes(existing_schedules)
        existing_minutes_today == SumWorkMinutes({s \in existing_schedules : s.date = current_date})
        daily_max == IF employees[emp].daily_max_hours = 0 THEN 8 ELSE employees[emp].daily_max_hours
    IN  /\ existing_minutes + shift_work_minutes(shift) <= employees[emp].weekly_hours * 60
        /\ existing_minutes_today + shift_work_minutes(shift) <= daily_max * 60
        /\ validate_5_shifts_per_week(rows, emp, current_date, NULL)

\* lines 5853-5868: the overtime warning (gross minutes of the day above 9 hours)
HasOvertimeWarning(rows, emp, shift, current_date) ==
    LET existing_today == {s \in WeekRows(rows, emp, current_date, NULL) :
                              s.status \in HourStatuses /\ s.date = current_date}
    IN  SumWorkMinutes(existing_today) + total_shift_minutes(shift) > 9 * 60

\* lines 5614-5898: the loop over the eligible employees of one shift on one
\* date.  g = [rows, nid, created, understaffed, overtime_warnings, failed];
\* failed records the ValueError of lines 5841-5842, which leaves every loop
RECURSIVE EmployeeLoop(_, _, _, _, _, _)
EmployeeLoop(g, department_id, shift, current_date, elig, assigned_count) ==
    IF elig = << >> THEN [g |-> g, assigned_count |-> assigned_count]
    ELSE
      LET emp == Head(elig)
          lrs == {l \in leaves : l.emp = emp /\ l.start_date <= current_date
                                  /\ l.end_date >= current_date /\ l.status = "approved"}
          crs == {c \in compoffs : c.emp = emp /\ c.comp_off_date = current_date
                                    /\ c.status = "approved"}
      IN
      IF lrs # {} \/ crs # {}
      THEN IF RowsOn(g.rows, emp, current_date) = {}
           THEN LET lr == LeaveRowFor(g.rows, emp, current_date, lrs, crs)
                    row == ScheduleRow(g.nid, department_id, emp, shift.role, shift.id,
                                       current_date, lr.st, lr.en, lr.status)
                IN  EmployeeLoop([g EXCEPT !.rows = @ \cup {row}, !.nid = @ + 1, !.created = @ + 1],
                                 department_id, shift, current_date, Tail(elig), assigned_count)
           ELSE EmployeeLoop(g, department_id, shift, current_date, Tail(elig), assigned_count)
      ELSE IF RowsOn(g.rows, emp, current_date) # {}
      THEN EmployeeLoop(g, department_id, shift, current_date, Tail(elig), assigned_count)
      ELSE IF ~GeneratorConsecutiveOk(g.rows, emp, current_date)
      THEN EmployeeLoop(g, department_id, shift, current_date, Tail(elig), assigned_count)
      ELSE IF shift.start_time = Unparsable \/ shift.end_time = Unparsable
      THEN [g |-> [g EXCEPT !.failed = TRUE], assigned_count |-> assigned_count]
      ELSE
        LET g1 == IF HasOvertimeWarning(g.rows, emp, shift, current_date)
                  THEN [g EXCEPT !.overtime_warnings = @ + 1] ELSE g
        IN
        IF MayAssign(g.rows, emp, shift, current_date)
        THEN LET row == ScheduleRow(g.nid, department_id, emp, shift.role, shift.id,
                                    current_date, shift.start_time, shift.end_time, "scheduled")
                 g2 == [g1 EXCEPT !.rows = @ \cup {row}, !.nid = @ + 1, !.created = @ + 1]
             IN  IF assigned_count + 1 >= shift.max_emp
                 THEN [g |-> g2, assigned_count |-> assigned_count + 1]
                 ELSE EmployeeLoop(g2, department_id, shift, current_date, Tail(elig), assigned_count + 1)
        ELSE EmployeeLoop(g1, department_id, shift, current_date, Tail(elig), assigned_count)

\* lines 5585-5902: the loop over the shifts on one date
RECURSIVE ShiftLoop(_, _, _, _)
ShiftLoop(g, department_id, current_date, shiftSeq) ==
    IF shiftSeq = << >> THEN g
    ELSE LET shift == Head(shiftSeq)
         IN  IF weekday(current_date) \notin enabled_days(shift)
             THEN ShiftLoop(g, department_id, current_date, Tail(shiftSeq))
             ELSE LET r == EmployeeLoop(g, department_id, shift, current_date,
                                        eligible_for_shift(shift, department_id), 0)
                      g1 == IF r.assigned_count < shift.min_emp
                            THEN [r.g EXCEPT !.understaffed = @ + 1] ELSE r.g
                  IN  IF r.g.failed THEN r.g
                      ELSE ShiftLoop(g1, department_id, current_date, Tail(shiftSeq))

\* a variant that schedules public holidays like any other day
RECURSIVE DateLoopNoHolidaySkip(_, _, _, _, _)
DateLoopNoHolidaySkip(g, department_id, current_date, end_date, shiftSeq) ==
    IF current_date > end_date THEN g
    ELSE DateLoopNoHolidaySkip(ShiftLoop(g, department_id, current_date, shiftSeq),
                               department_id, current_date + 1, end_date, shiftSeq)

\* lines 5574-5904: the loop over the dates of the range
RECURSIVE DateLoop(_, _, _, _, _)
DateLoop(g, department_id, current_date, end_date, shiftSeq) ==
    IF current_date > end_date THEN g
    ELSE IF is_holiday(current_date)
         THEN DateLoop(g, department_id, current_date + 1, end_date, shiftSeq)
         ELSE LET day == ShiftLoop(g, department_id, current_date, shiftSeq)
              IN  IF day.failed THEN day
                  ELSE DateLoop(day, department_id, current_date + 1, end_date, shiftSeq)

-----------------------------------------------------------------------------
(* Requests *)

\* a variant that forgets the department filter
InAnyDepartmentRange(s, department_id, start_date, end_date) ==
    s.date >= start_date /\ s.date <= end_date

\* a variant that clears every row of the department in the range
RegenerateDeletesAll(rows, department_id, start_date, end_date) ==
    {s \in rows : s.dept = department_id /\ s.date >= start_date /\ s.date <= end_date}

InRange(s, department_id, start_date, end_date) ==
    s.dept = department_id /\ s.date >= start_date /\ s.date <= end_date

\* lines 5401-5443: the rows a regeneration deletes
RegenerateDeletes(rows, department_id, start_date, end_date) ==
    {s \in rows : InRange(s, department_id, start_date, end_date)
                  /\ s.status \in {"scheduled", "comp_off_taken"}}

\* lines 5449-5473: the active shifts of the active roles of the department
DeptShifts(department_id) ==
    SelectSeq(shifts, LAMBDA sh : sh.is_active /\ roles[sh.role].dept = department_id
                                  /\ roles[sh.role].is_active)

\* lines 5478-5506 followed by the commit of line 5906: the schedule_config
\* written into a shift that had none
NormalizedShifts(department_id) ==
    [i \in DOMAIN shifts |->
        IF shifts[i].is_active /\ roles[shifts[i].role].dept = department_id
           /\ roles[shifts[i].role].is_active
        THEN [shifts[i] EXCEPT !.configured = TRUE, !.enabled = enabled_days(shifts[i])]
        ELSE shifts[i]]

GenResponse(department_id, start_date, end_date, regenerate) ==
    [op |-> "generate_schedules", code |-> 200, department |-> department_id,
     start_date |-> start_date, end_date |-> end_date, regenerate |-> regenerate,
     success |-> TRUE, requires_confirmation |-> FALSE, schedules_created |-> 0,
     existing_count |-> 0, warnings |-> 0, overtime_warnings |-> 0]

\* POST /schedules/generate: what the handler leaves behind, as one record
GenerateResult(department_id, start_date, end_date, regenerate) ==
    LET existing_schedules == {s \in schedules : InRange(s, department_id, start_date, end_date)}
        base == GenResponse(department_id, start_date, end_date, regenerate)
    IN
    IF existing_schedules # {} /\ ~regenerate
    THEN [schedules |-> schedules, nextId |-> nextId, ids |-> {}, shifts |-> shifts,
          response |-> [base EXCEPT !.success = FALSE, !.requires_confirmation = TRUE,
                                    !.existing_count = Cardinality(existing_schedules)]]
    ELSE
      LET gone == IF existing_schedules # {} /\ regenerate
                  THEN RegenerateDeletes(schedules, department_id, start_date, end_date)
                  ELSE {}
          deptShifts == DeptShifts(department_id)
          g0 == [rows |-> schedules \ gone, nid |-> nextId, created |-> 0,
                 understaffed |-> 0, overtime_warnings |-> 0, failed |-> FALSE]
          stop == \/ {r \in DOMAIN roles : roles[r].dept = department_id /\ roles[r].is_active} = {}
                  \/ deptShifts = << >>
                  \/ DeptEmployees(department_id) = << >>
      IN  IF stop
          THEN [schedules |-> g0.rows, nextId |-> nextId, ids |-> {s.id : s \in gone},
                shifts |-> shifts, response |-> base]
          ELSE LET g == DateLoop(g0, department_id, start_date, end_date, deptShifts)
               IN  IF g.failed
                   \* lines 5924-5929: the exception becomes HTTP 500; the rows
                   \* added since the commit of line 5443 are dropped with the
                   \* session, the deletion committed there stays
                   THEN [schedules |-> g0.rows, nextId |-> g.nid, ids |-> {s.id : s \in gone},
                         shifts |-> shifts,
                         response |-> [base EXCEPT !.code = 500, !.success = FALSE]]
                   ELSE
                   [schedules |-> g.rows, nextId |-> g.nid, ids |-> {s.id : s \in gone},
                    shifts |-> NormalizedShifts(department_id),
                    response |-> [base EXCEPT !.schedules_created = g.created,
                                              !.warnings = g.understaffed,
                                              !.overtime_warnings = g.overtime_warnings]]

generate_schedules(department_id, start_date, end_date, regenerate) ==
    \E res \in {GenerateResult(department_id, start_date, end_date, regenerate)} :
        /\ schedules' = res.schedules
        /\ nextId' = res.nextId
        /\ shifts' = res.shifts
        /\ lastDeleted' = res.ids
        \* lines 5415-5432: Attendance rows of the deleted schedules go, the
        \* references from CheckInOut and CompOffRequest are set to NULL
        /\ attendance' = {a \in attendance : a.schedule_id \notin res.ids}
        /\ checkins' = {IF c.schedule_id \in res.ids THEN [c EXCEPT !.schedule_id = NULL] ELSE c : c \in checkins}
        /\ compoffs' = {IF c.schedule_id \in res.ids THEN [c EXCEPT !.schedule_id = NULL] ELSE c : c \in compoffs}
        /\ response' = res.response

Departments == {roles[r].dept : r \in DOMAIN roles}

GenerateSchedules ==
    /\ nreq < MaxRequests
    /\ \E department_id \in Departments, start_date \in {0, 3}, regenerate \in BOOLEAN :
          generate_schedules(department_id, start_date, NumDays - 1, regenerate)
    /\ nreq' = nreq + 1
    /\ UNCHANGED <<holidays, today, roles, employees, leaves, tracking, details, otreqs, sessions>>

ErrorResponse(op, code) == [op |-> op, code |-> code]

\* lines 5091-5099: the length of the requested shift in the manual creation
\* flow, in minutes; an end at or before the start is taken across midnight
shift_hours(start_time, end_time) ==
    IF end_time > start_time
    THEN end_time - start_time
    ELSE 24 * 60 - start_time + end_time

\* POST /schedules: both validators, then the daily and weekly hour sums; the
\* weekly query (lines 5154-5160) reads week_start and week_end, names the
\* handler never binds, so a request that passes the validators ends in
\* NameError (HTTP 500) before any row is added
create_schedule(employee_id, d, st, en) ==
    /\ response' =
          IF ~validate_5_shifts_per_week(schedules, employee_id, d, NULL)
          THEN ErrorResponse("create_schedule", 400)
          ELSE IF ~validate_consecutive_shifts_limit(schedules, employee_id, d, NULL, DefaultMaxConsecutive)
          THEN ErrorResponse("create_schedule", 400)
          ELSE ErrorResponse("create_schedule", 500)
    /\ lastDeleted' = {}
    /\ UNCHANGED tables
    /\ UNCHANGED nextId

CreateSchedule ==
    /\ nreq < MaxRequests
    /\ \E employee_id \in DOMAIN employees, d \in {1, NumDays - 1} :
          create_schedule(employee_id, d, 540, 1080)
    /\ nreq' = nreq + 1
    /\ UNCHANGED config

\* PUT /schedules/{schedule_id} with a new date
update_schedule(schedule, new_date) ==
    IF new_date # schedule.date
       /\ (~validate_5_shifts_per_week(schedules, schedule.emp, new_date, schedule.id)
           \/ ~validate_consecutive_shifts_limit(schedules, schedule.emp, new_date, schedule.id, DefaultMaxConsecutive))
    THEN /\ response' = ErrorResponse("update_schedule", 400)
         /\ UNCHANGED schedules
    ELSE /\ schedules' = (schedules \ {schedule}) \cup {[schedule EXCEPT !.date = new_date]}
         /\ response' = [op |-> "update_schedule", code |-> 200, id |-> schedule.id]

UpdateSchedule ==
    /\ nreq < MaxRequests
    /\ \E schedule \in schedules, new_date \in {1, NumDays - 1} : update_schedule(schedule, new_date)
    /\ nreq' = nreq + 1
    /\ lastDeleted' = {}
    /\ UNCHANGED <<config, nextId, leaves, compoffs, tracking, details, checkins, attendance, otreqs>>

\* POST /leave-requests
create_leave_request(employee_id, start_date, end_date, leave_type, duration_type) ==
    LET approved_paid == {l \in leaves : l.emp = employee_id /\ l.leave_type = "paid" /\ l.status = "approved"}
        RECURSIVE SumDays(_)
        SumDays(S) == IF S = {} THEN 0
                      ELSE LET l == CHOOSE x \in S : TRUE
                           IN  (l.end_date - l.start_date + 1) + SumDays(S \ {l})
        days_requested == end_date - start_date + 1
    IN
    IF end_date < start_date
    THEN /\ response' = ErrorResponse("create_leave_request", 400)
         /\ UNCHANGED leaves
    ELSE IF leave_type = "paid" /\ SumDays(approved_paid) + days_requested > employees[employee_id].paid_leave_per_year
    THEN /\ response' = ErrorResponse("create_leave_request", 400)
         /\ UNCHANGED leaves
    ELSE /\ leaves' = leaves \cup {[id |-> Cardinality(leaves) + 1, emp |-> employee_id,
                                    start_date |-> start_date, end_date |-> end_date,
                                    leave_type |-> leave_type, duration_type |-> duration_type,
                                    status |-> "pending"]}
         /\ response' = [op |-> "create_leave_request", code |-> 200]

\* the leave requests the model submits: <<leave_type, duration_type, start_date, end_date>>
LeaveInputs == {<<"paid", "full_day", 0, 4>>, <<"paid", "half_day_morning", 5, NumDays - 1>>,
                <<"comp_off", "full_day", 5, NumDays - 1>>}

CreateLeaveRequest ==
    /\ nreq < MaxRequests
    /\ \E employee_id \in DOMAIN employees, r \in LeaveInputs :
          create_leave_request(employee_id, r[3], r[4], r[1], r[2])
    /\ nreq' = nreq + 1
    /\ lastDeleted' = {}
    /\ UNCHANGED <<config, schedules, nextId, compoffs, tracking, details, checkins, attendance, otreqs>>

NonCancelledOn(rows, employee_id, d) == {s \in RowsOn(rows, employee_id, d) : s.status # "cancelled"}

\* lines 3888-3904
PaidLeaveRow(id, employee, employee_id, d, duration_type) ==
    IF duration_type = "half_day_morning"
    THEN ScheduleRow(id, employee.dept, employee_id, employee.role, NULL, d, 0, 720, "leave_half_morning")
    ELSE IF duration_type = "half_day_afternoon"
    THEN ScheduleRow(id, employee.dept, employee_id, employee.role, NULL, d, 720, 1439, "leave_half_afternoon")
    ELSE ScheduleRow(id, employee.dept, employee_id, employee.role, NULL, d, 0, 1439, "leave")

\* lines 3877-3918: one Schedule row for every date of the leave that has no
\* non-cancelled row yet.  g = [rows, nid]
RECURSIVE PaidLeaveLoop(_, _, _, _, _)
PaidLeaveLoop(g, leave_request, employee, current_date, end_date) ==
    IF current_date > end_date THEN g
    ELSE IF NonCancelledOn(g.rows, leave_request.emp, current_date) = {}
         THEN PaidLeaveLoop([rows |-> g.rows \cup {PaidLeaveRow(g.nid, employee, leave_request.emp,
                                                  current_date, leave_request.duration_type)},
                             nid |-> g.nid + 1],
                            leave_request, employee, current_date + 1, end_date)
         ELSE PaidLeaveLoop(g, leave_request, employee, current_date + 1, end_date)

\* lines 3947-3979: every date of a comp-off leave loses its rows that are
\* neither comp_off_taken nor cancelled and gains a comp_off_taken row
RECURSIVE CompOffLeaveLoop(_, _, _, _, _)
CompOffLeaveLoop(g, leave_request, employee, current_date, end_date) ==
    IF current_date > end_date THEN g
    ELSE LET existing_schedules == {s \in RowsOn(g.rows, leave_request.emp, current_date) :
                                       s.status # "comp_off_taken" /\ s.status # "cancelled"}
             row == ScheduleRow(g.nid, employee.dept, leave_request.emp, employee.role, NULL,
                                current_date, NULL, NULL, "comp_off_taken")
         IN  CompOffLeaveLoop([rows |-> (g.rows \ existing_schedules) \cup {row}, nid |-> g.nid + 1],
                              leave_request, employee, current_date + 1, end_date)

\* a variant that logs one 'used' row for the whole leave
UsedDetailsOnce(employee_id, current_date, end_date) ==
    IF current_date > end_date THEN << >>
    ELSE <<[emp |-> employee_id, type |-> "used", date |-> current_date,
            earned_month |-> month_of(current_date)]>>

\* lines 3992-4005
RECURSIVE UsedDetails(_, _, _)
UsedDetails(employee_id, current_date, end_date) ==
    IF current_date > end_date THEN << >>
    ELSE <<[emp |-> employee_id, type |-> "used", date |-> current_date,
            earned_month |-> month_of(current_date)]>>
         \o UsedDetails(employee_id, current_date + 1, end_date)

\* POST /manager/approve-leave/{leave_id}
approve_leave(leave_request) ==
    LET employee == employees[leave_request.emp]
        range == leave_request.start_date .. leave_request.end_date
        approved == [leave_request EXCEPT !.status = "approved"]
        g0 == [rows |-> schedules, nid |-> nextId]
    IN
    IF leave_request.leave_type \in {"paid", "unpaid"}
    THEN IF \E d \in range : Cardinality(NonCancelledOn(schedules, leave_request.emp, d)) > 1
         THEN \* scalar_one_or_none() raises MultipleResultsFound
              /\ response' = ErrorResponse("approve_leave", 500)
              /\ lastDeleted' = {}
              /\ UNCHANGED <<schedules, nextId, leaves, tracking, details, checkins, attendance>>
         ELSE LET g == PaidLeaveLoop(g0, leave_request, employee, leave_request.start_date,
                                     leave_request.end_date)
              IN  IF g.nid # nextId /\ employee.role = NULL
                  THEN \* schedules.role_id is NOT NULL
                       /\ response' = ErrorResponse("approve_leave", 500)
                       /\ lastDeleted' = {}
                       /\ UNCHANGED <<schedules, nextId, leaves, tracking, details, checkins, attendance>>
                  ELSE /\ schedules' = g.rows
                       /\ nextId' = g.nid
                       /\ leaves' = (leaves \ {leave_request}) \cup {approved}
                       /\ response' = [op |-> "approve_leave", code |-> 200, id |-> leave_request.id]
                       /\ lastDeleted' = {}
                       /\ UNCHANGED <<tracking, details, checkins, attendance>>
    ELSE IF leave_request.leave_type = "comp_off"
    THEN IF \E d \in range : month_of(d) < month_of(today)
         THEN /\ response' = ErrorResponse("approve_leave", 400)
              /\ lastDeleted' = {}
              /\ UNCHANGED <<schedules, nextId, leaves, tracking, details, checkins, attendance>>
         ELSE IF employee.role = NULL
         THEN /\ response' = ErrorResponse("approve_leave", 500)
              /\ lastDeleted' = {}
              /\ UNCHANGED <<schedules, nextId, leaves, tracking, details, checkins, attendance>>
         ELSE LET g == CompOffLeaveLoop(g0, leave_request, employee, leave_request.start_date,
                                        leave_request.end_date)
                  ids == {s.id : s \in schedules \ g.rows}
                  comp_off_days == leave_request.end_date - leave_request.start_date + 1
                  t == tracking[leave_request.emp]
              IN  /\ schedules' = g.rows
                  /\ nextId' = g.nid
                  /\ leaves' = (leaves \ {leave_request}) \cup {approved}
                  /\ lastDeleted' = ids
                  \* Schedule.check_in / Schedule.attendance cascade on an ORM delete
                  /\ checkins' = {c \in checkins : c.schedule_id \notin ids}
                  /\ attendance' = {a \in attendance : a.schedule_id \notin ids}
                  /\ IF t.exists
                     THEN /\ tracking' = [tracking EXCEPT ![leave_request.emp] =
                                 [t EXCEPT !.used_days = t.used_days + comp_off_days,
                                           !.available_days = t.earned_days - (t.used_days + comp_off_days)]]
                          /\ details' = details \o UsedDetails(leave_request.emp, leave_request.start_date,
                                                               leave_request.end_date)
                     ELSE UNCHANGED <<tracking, details>>
                  /\ response' = [op |-> "approve_leave", code |-> 200, id |-> leave_request.id]
    ELSE /\ leaves' = (leaves \ {leave_request}) \cup {approved}
         /\ response' = [op |-> "approve_leave", code |-> 200, id |-> leave_request.id]
         /\ lastDeleted' = {}
         /\ UNCHANGED <<schedules, nextId, tracking, details, checkins, attendance>>

ApproveLeave ==
    /\ nreq < MaxRequests
    /\ \E leave_request \in leaves : approve_leave(leave_request)
    /\ nreq' = nreq + 1
    /\ UNCHANGED <<config, compoffs, otreqs>>

\* POST /comp-off-requests
create_comp_off_request(employee_id, comp_off_date) ==
    LET work == {s \in RowsOn(schedules, employee_id, comp_off_date) : s.status \in {"scheduled", "completed"}}
    IN  IF Cardinality(work) > 1
        THEN /\ response' = ErrorResponse("create_comp_off_request", 500)
             /\ UNCHANGED compoffs
        ELSE IF work # {}
        THEN /\ response' = ErrorResponse("create_comp_off_request", 400)
             /\ UNCHANGED compoffs
        ELSE /\ compoffs' = compoffs \cup {[id |-> Cardinality(compoffs) + 1, emp |-> employee_id,
                                            comp_off_date |-> comp_off_date, status |-> "pending",
                                            schedule_id |-> NULL]}
             /\ response' = [op |-> "create_comp_off_request", code |-> 200]

CreateCompOffRequest ==
    /\ nreq < MaxRequests
    /\ \E employee_id \in DOMAIN employees, comp_off_date \in {2} :
          create_comp_off_request(employee_id, comp_off_date)
    /\ nreq' = nreq + 1
    /\ lastDeleted' = {}
    /\ UNCHANGED <<config, schedules, nextId, leaves, tracking, details, checkins, attendance, otreqs>>

NoTracking == [exists |-> FALSE, earned_days |-> 0, used_days |-> 0, available_days |-> 0, expired_days |-> 0]

\* POST /manager/approve-comp-off/{comp_off_id}
approve_comp_off(comp_off) ==
    LET employee == employees[comp_off.emp]
        new_schedule == ScheduleRow(nextId, employee.dept, comp_off.emp, employee.role, NULL,
                                    comp_off.comp_off_date, NULL, NULL, "comp_off_taken")
        t == tracking[comp_off.emp]
    IN
    IF employee.role = NULL
    THEN /\ response' = ErrorResponse("approve_comp_off", 500)
         /\ UNCHANGED <<schedules, nextId, compoffs, tracking, details>>
    ELSE /\ schedules' = schedules \cup {new_schedule}
         /\ nextId' = nextId + 1
         /\ compoffs' = (compoffs \ {comp_off}) \cup
                        {[comp_off EXCEPT !.status = "approved", !.schedule_id = nextId]}
         /\ tracking' = [tracking EXCEPT ![comp_off.emp] =
                IF t.exists
                THEN [t EXCEPT !.earned_days = t.earned_days + 1,
                               !.available_days = (t.earned_days + 1) - t.used_days]
                ELSE [exists |-> TRUE, earned_days |-> 1, used_days |-> 0,
                      available_days |-> 1, expired_days |-> 0]]
         /\ details' = Append(details, [emp |-> comp_off.emp, type |-> "earned",
                                        date |-> comp_off.comp_off_date,
                                        earned_month |-> month_of(comp_off.comp_off_date)])
         /\ response' = [op |-> "approve_comp_off", code |-> 200, id |-> comp_off.id]

ApproveCompOff ==
    /\ nreq < MaxRequests
    /\ \E comp_off \in compoffs : approve_comp_off(comp_off)
    /\ nreq' = nreq + 1
    /\ lastDeleted' = {}
    /\ UNCHANGED <<config, leaves, checkins, attendance, otreqs>>

-----------------------------------------------------------------------------
(* Check-in, check-out and overtime approval: backend/app/main.py.
   Hour columns (worked_hours, overtime_hours, request_hours) are kept in
   hundredths of an hour, the precision round(x, 2) leaves; clock times are
   whole minutes *)

\* round(minutes / 60, 2), in hundredths of an hour
RoundHours(minutes) == (10 * minutes + 3) \div 6

\* round(min(actual_ot_minutes / 60, request_hours), 2)
CappedHours(actual_ot_minutes, request_hours) ==
    IF actual_ot_minutes * 100 <= request_hours * 60
    THEN RoundHours(actual_ot_minutes)
    ELSE request_hours

\* a variant that starts the overtime period at the approved window's start,
\* whatever the end of the shift
WindowOvertimeFromWindowStart(shift_end_time, overtime_request, check_out_time) ==
    IF Min(check_out_time, overtime_request.to_time) > overtime_request.from_time
    THEN CappedHours(Min(check_out_time, overtime_request.to_time) - overtime_request.from_time,
                     overtime_request.request_hours)
    ELSE 0

\* lines 1541-1555: overtime inside the approved window
WindowOvertime(shift_end_time, overtime_request, check_out_time) ==
    LET actual_ot_start == Max(shift_end_time, overtime_request.from_time)
        actual_ot_end == Min(check_out_time, overtime_request.to_time)
    IN  IF actual_ot_end > actual_ot_start
        THEN CappedHours(actual_ot_end - actual_ot_start, overtime_request.request_hours)
        ELSE 0

\* lines 1556-1561 and 1562-1568: approved hours without a usable window
FallbackOvertime(worked_hours, daily_max_hours, overtime_request) ==
    IF worked_hours - daily_max_hours * 100 > 0
    THEN Min(worked_hours - daily_max_hours * 100, overtime_request.request_hours)
    ELSE 0

\* a variant without the test worked_hours > daily_max_hours
overtime_hours_unguarded(worked_hours, daily_max_hours, linked, approved, check_out_time) ==
    worked_hours - daily_max_hours * 100

\* lines 1503-1573: overtime_hours of the Attendance row.  linked is the
\* schedule of the check-in (empty when schedule_id is NULL or dangling),
\* approved the approved OvertimeRequest of the day (empty or one row)
overtime_hours_at_check_out(worked_hours, daily_max_hours, linked, approved, check_out_time) ==
    IF approved # {} /\ linked # {}
    THEN LET overtime_request == CHOOSE o \in approved : TRUE
             schedule == CHOOSE x \in linked : TRUE
         IN  IF schedule.end_time = NULL
             THEN \* AttributeError on None.hour: the except branch
                  FallbackOvertime(worked_hours, daily_max_hours, overtime_request)
             ELSE IF overtime_request.from_time # NULL /\ overtime_request.to_time # NULL
             THEN WindowOvertime(schedule.end_time, overtime_request, check_out_time)
             ELSE FallbackOvertime(worked_hours, daily_max_hours, overtime_request)
    ELSE IF worked_hours > daily_max_hours * 100
    THEN worked_hours - daily_max_hours * 100
    ELSE 0

OpenCheckIns(employee_id) ==
    {c \in checkins : c.emp = employee_id /\ c.date = today /\ c.check_out_time = NULL}

AttendanceOf(rows, employee_id, d) == {a \in rows : a.emp = employee_id /\ a.date = d}

\* POST /employee/check-in at clock time now
check_in(employee_id, now) ==
    LET todays == RowsOn(schedules, employee_id, today)
        schedule == CHOOSE x \in todays : TRUE
        id == Cardinality(checkins) + 1
        existing == AttendanceOf(attendance, employee_id, today)
    IN
    IF OpenCheckIns(employee_id) # {}
    THEN /\ response' = ErrorResponse("check_in", 400)
         /\ UNCHANGED <<checkins, attendance>>
    ELSE IF Cardinality(todays) > 1
    THEN \* scalar_one_or_none() raises MultipleResultsFound
         /\ response' = ErrorResponse("check_in", 500)
         /\ UNCHANGED <<checkins, attendance>>
    ELSE IF todays = {}
    THEN /\ response' = ErrorResponse("check_in", 400)
         /\ UNCHANGED <<checkins, attendance>>
    ELSE /\ checkins' = checkins \cup {[id |-> id, emp |-> employee_id, schedule_id |-> schedule.id,
                                        date |-> today, check_in_time |-> now, check_out_time |-> NULL]}
         /\ attendance' =
               IF existing = {}
               THEN attendance \cup {[emp |-> employee_id, schedule_id |-> schedule.id, date |-> today,
                                      in_time |-> now, out_time |-> NULL, worked_hours |-> 0,
                                      overtime_hours |-> 0, break_minutes |-> 0]}
               ELSE IF Cardinality(existing) > 1
               THEN attendance
               ELSE {IF a \in existing /\ a.in_time = NULL THEN [a EXCEPT !.in_time = now] ELSE a :
                        a \in attendance}
         /\ response' = [op |-> "check_in", code |-> 200, id |-> id]

\* POST /employee/check-out at clock time now
check_out(employee_id, now) ==
    IF OpenCheckIns(employee_id) = {}
    THEN /\ response' = ErrorResponse("check_out", 400)
         /\ UNCHANGED <<checkins, attendance>>
    ELSE
      LET c == CHOOSE x \in OpenCheckIns(employee_id) : TRUE
          linked == {x \in schedules : x.id = c.schedule_id}
          existing == AttendanceOf(attendance, employee_id, today)
          approved == {o \in otreqs : o.emp = employee_id /\ o.request_date = today
                                       /\ o.status = "approved"}
          total_minutes == now - c.check_in_time
          role_break == IF linked # {} THEN roles[(CHOOSE x \in linked : TRUE).role].break_minutes ELSE 0
          break_minutes == IF total_minutes >= role_break THEN role_break ELSE 0
          worked_hours == RoundHours(Max(0, total_minutes - break_minutes))
          overtime_hours == overtime_hours_at_check_out(worked_hours, employees[employee_id].daily_max_hours,
                                                        linked, approved, now)
          fresh == [emp |-> employee_id, schedule_id |-> c.schedule_id, date |-> today,
                    in_time |-> c.check_in_time, out_time |-> now, worked_hours |-> worked_hours,
                    overtime_hours |-> overtime_hours, break_minutes |-> break_minutes]
      IN  /\ checkins' = (checkins \ {c}) \cup {[c EXCEPT !.check_out_time = now]}
          /\ attendance' =
                IF Cardinality(existing) > 1 \/ Cardinality(approved) > 1
                THEN \* MultipleResultsFound inside the try block: nothing is committed
                     attendance
                ELSE (attendance \ existing) \cup {fresh}
          /\ response' = [op |-> "check_out", code |-> 200, id |-> c.id]

\* POST /manager/overtime-approve: creates an approved request in one step
manager_approve_overtime(employee_id, request_date, from_time, to_time, request_hours) ==
    IF \E o \in otreqs : o.emp = employee_id /\ o.request_date = request_date /\ o.status = "approved"
    THEN /\ response' = ErrorResponse("manager_approve_overtime", 400)
         /\ UNCHANGED otreqs
    ELSE /\ otreqs' = otreqs \cup {[id |-> Cardinality(otreqs) + 1, emp |-> employee_id,
                                    request_date |-> request_date, from_time |-> from_time,
                                    to_time |-> to_time, request_hours |-> request_hours,
                                    status |-> "approved"]}
         /\ response' = [op |-> "manager_approve_overtime", code |-> 200]

-----------------------------------------------------------------------------
(* Specification of the scheduling requests, served one at a time *)

\* the two generate_schedules requests of the concurrent specification
Requests == {1, 2}

IdleSession == [pc |-> "idle", department_id |-> 0, start_date |-> 0, current_date |-> 0, end_date |-> 0,
                shift_index |-> 1, pending |-> {}, schedules_created |-> 0]

EmptyTables ==
    /\ schedules = {} /\ nextId = 1 /\ leaves = {} /\ compoffs = {}
    /\ details = << >> /\ checkins = {} /\ attendance = {} /\ otreqs = {}
    /\ response = [op |-> "none", code |-> 0]
    /\ lastDeleted = {} /\ nreq = 0
    /\ sessions = [p \in Requests |-> IdleSession]

Employee(dept, role) ==
    [dept |-> dept, role |-> role, weekly_hours |-> 40, daily_max_hours |-> 8,
     paid_leave_per_year |-> 10, is_active |-> TRUE]

Role(dept, break_minutes) == [dept |-> dept, break_minutes |-> break_minutes, is_active |-> TRUE]

Shift(id, role, st, en, min_emp, max_emp, configured, enabled) ==
    [id |-> id, role |-> role, start_time |-> st, end_time |-> en, min_emp |-> min_emp,
     max_emp |-> max_emp, configured |-> configured, enabled |-> enabled, is_active |-> TRUE]

\* two departments with one role, one shift and one employee each, and an
\* empty database
Organisation ==
    /\ roles = [r \in {1, 2} |-> Role(r, 60)]
    /\ shifts = <<Shift(1, 1, 540, 1080, 1, 2, TRUE, 0 .. 4), Shift(2, 2, 540, 1080, 1, 2, FALSE, {})>>
    /\ employees = [e \in {1, 2} |-> Employee(e, e)]
    /\ tracking = [e \in {1, 2} |-> NoTracking]
    /\ EmptyTables

\* the same, on Wednesday of the week
Setup ==
    /\ today = 2
    /\ Organisation

Init ==
    /\ holidays \in {{}, {2}}
    /\ Setup

Next ==
    \/ GenerateSchedules
    \/ CreateSchedule
    \/ UpdateSchedule
    \/ CreateLeaveRequest
    \/ ApproveLeave
    \/ CreateCompOffRequest
    \/ ApproveCompOff

Spec == Init /\ [][Next]_vars

-----------------------------------------------------------------------------
(* Specification of the calendar: every placement of public holidays on the
   dates 0 .. CalDays-1, and the required-shift queries for the weeks that
   start on a Monday *)

CalDays == 9

CalMondays == {d \in 0 .. (CalDays - 1) : weekday(d) = 0}

InitCal ==
    /\ holidays \in SUBSET (0 .. (CalDays - 1))
    /\ Setup

\* a caller asks for the required shifts and for the week info of one week
WeekQuery ==
    /\ \E week_start \in CalMondays :
          response' = [op |-> "week_query", week_start |-> week_start,
                       required_shifts |-> get_shifts_required_for_week(week_start),
                       week_info |-> get_week_info(week_start)]
    /\ UNCHANGED <<config, tables, nextId, lastDeleted, nreq>>

NextCal == WeekQuery

SpecCal == InitCal /\ [][NextCal]_vars

-----------------------------------------------------------------------------
(* Specification of the one-week scenario: one department with one role, one
   shift 09:00-18:00 enabled Monday to Friday and two employees; the week is
   the dates 0 .. 6 and the database starts empty *)

MaxHolidays == 2

InitScenario ==
    /\ holidays \in {h \in SUBSET (0 .. 6) : Cardinality(h) <= MaxHolidays}
    /\ today = 2
    /\ \E break_minutes \in {30, 60} : roles = [r \in {1} |-> Role(1, break_minutes)]
    /\ \E min_emp \in {1, 2}, max_emp \in {1, 2} :
          shifts = <<Shift(1, 1, 540, 1080, min_emp, max_emp, TRUE, 0 .. 4)>>
    /\ employees = [e \in {1, 2} |-> Employee(1, 1)]
    /\ tracking = [e \in {1, 2} |-> NoTracking]
    /\ EmptyTables

\* the manager of the department generates the week
GenerateWeek ==
    /\ nreq < MaxRequests
    /\ \E regenerate \in BOOLEAN : generate_schedules(1, 0, 6, regenerate)
    /\ nreq' = nreq + 1
    /\ UNCHANGED <<holidays, today, roles, employees, leaves, tracking, details, otreqs, sessions>>

NextScenario == GenerateWeek

SpecScenario == InitScenario /\ [][NextScenario]_vars

-----------------------------------------------------------------------------
(* Specification of a working day: the manager generates and regenerates the
   schedule and approves overtime, an employee checks in and out, in any
   order; the day is `today` *)

MaxDayRequests == 5

\* the overtime approvals the manager submits: <<from_time, to_time, request_hours>>
OvertimeInputs == {<<1080, 1200, 150>>, <<1020, 1140, 100>>, <<NULL, NULL, 150>>}

DayGenerate ==
    /\ nreq < MaxDayRequests
    /\ \E regenerate \in BOOLEAN : generate_schedules(1, 0, NumDays - 1, regenerate)
    /\ nreq' = nreq + 1
    /\ UNCHANGED <<holidays, today, roles, employees, leaves, tracking, details, otreqs, sessions>>

CheckIn ==
    /\ nreq < MaxDayRequests
    /\ check_in(1, 540)
    /\ nreq' = nreq + 1
    /\ lastDeleted' = {}
    /\ UNCHANGED <<config, schedules, nextId, leaves, compoffs, tracking, details, otreqs>>

CheckOut ==
    /\ nreq < MaxDayRequests
    /\ \E now \in {570, 1080, 1100, 1170, 1230} : check_out(1, now)
    /\ nreq' = nreq + 1
    /\ lastDeleted' = {}
    /\ UNCHANGED <<config, schedules, nextId, leaves, compoffs, tracking, details, otreqs>>

ManagerApproveOvertime ==
    /\ nreq < MaxDayRequests
    /\ \E r \in OvertimeInputs : manager_approve_overtime(1, today, r[1], r[2], r[3])
    /\ nreq' = nreq + 1
    /\ lastDeleted' = {}
    /\ UNCHANGED <<config, schedules, nextId, leaves, compoffs, tracking, details, checkins, attendance>>

InitDay ==
    /\ holidays = {}
    /\ Setup

NextDay ==
    \/ DayGenerate
    \/ CheckIn
    \/ CheckOut
    \/ ManagerApproveOvertime
    \/ CreateCompOffRequest
    \/ ApproveCompOff

SpecDay == InitDay /\ [][NextDay]_vars

-----------------------------------------------------------------------------
(* Specification of the comp-off ledger: an employee asks for comp-off days
   and for comp-off leave, the manager approves, in any order; the requests
   are dated in the first month (today = 2) or in the second (today = 5) *)

MaxCompOffRequests == 4

\* the comp-off leaves the employee asks for: <<start_date, end_date>>
CompOffLeaveInputs == {<<5, NumDays - 1>>, <<5, 5>>, <<1, 1>>}

EarnRequest ==
    /\ nreq < MaxCompOffRequests
    /\ create_comp_off_request(1, 2)
    /\ nreq' = nreq + 1
    /\ lastDeleted' = {}
    /\ UNCHANGED <<config, schedules, nextId, leaves, tracking, details, checkins, attendance, otreqs>>

EarnApprove ==
    /\ nreq < MaxCompOffRequests
    /\ \E comp_off \in compoffs : approve_comp_off(comp_off)
    /\ nreq' = nreq + 1
    /\ lastDeleted' = {}
    /\ UNCHANGED <<config, leaves, checkins, attendance, otreqs>>

UseRequest ==
    /\ nreq < MaxCompOffRequests
    /\ \E r \in CompOffLeaveInputs : create_leave_request(1, r[1], r[2], "comp_off", "full_day")
    /\ nreq' = nreq + 1
    /\ lastDeleted' = {}
    /\ UNCHANGED <<config, schedules, nextId, compoffs, tracking, details, checkins, attendance, otreqs>>

UseApprove ==
    /\ nreq < MaxCompOffRequests
    /\ \E leave_request \in leaves : approve_leave(leave_request)
    /\ nreq' = nreq + 1
    /\ UNCHANGED <<config, compoffs, otreqs>>

InitCompOff ==
    /\ holidays = {}
    /\ today \in {2, 5}
    /\ Organisation

NextCompOff ==
    \/ EarnRequest
    \/ EarnApprove
    \/ UseRequest
    \/ UseApprove

SpecCompOff == InitCompOff /\ [][NextCompOff]_vars

-----------------------------------------------------------------------------
(* Specification of concurrent generation: two requests to
   POST /schedules/generate (regenerate = false) of the manager of department 1
   are in flight.  Each runs in the AsyncSession of its own request
   (Depends(get_db)) and gives way at its awaits; the handler is cut after
   the check for existing rows, after each shift of each date, and at the
   commit.  A session's queries see the committed rows and the rows the
   session itself has added; rows another session has added and not yet
   committed are not visible to it *)

ConcurrentDays == 2

\* a variant in which a session's queries see the committed rows only
CommittedRows(p) == schedules

\* the Schedule rows the queries of session p return
SessionRows(p) == schedules \cup sessions[p].pending

\* lines 5361-5393: the department and the check for existing rows
BeginGenerate(p, start_date, end_date) ==
    LET department_id == 1
        existing_schedules == {s \in SessionRows(p) : InRange(s, department_id, start_date, end_date)}
        base == GenResponse(department_id, start_date, end_date, FALSE)
    IN  /\ sessions[p].pc = "idle"
        /\ IF existing_schedules # {}
           THEN /\ sessions' = [sessions EXCEPT ![p].pc = "done"]
                /\ response' = [base EXCEPT !.success = FALSE, !.requires_confirmation = TRUE,
                                            !.existing_count = Cardinality(existing_schedules)]
           ELSE /\ sessions' = [sessions EXCEPT ![p] = [pc |-> "dates", department_id |-> department_id,
                                                        start_date |-> start_date,
                                                        current_date |-> start_date, end_date |-> end_date,
                                                        shift_index |-> 1, pending |-> {},
                                                        schedules_created |-> 0]]
                /\ UNCHANGED response
        /\ nreq' = nreq + 1
        /\ lastDeleted' = {}
        /\ UNCHANGED <<holidays, today, roles, shifts, employees, tables, nextId>>

\* lines 5574-5904: one shift of the current date (a holiday is passed over
\* whole), on the rows the session sees
ShiftStep(p) ==
    LET ses == sessions[p]
        deptShifts == DeptShifts(ses.department_id)
        view == SessionRows(p)
        g0 == [rows |-> view, nid |-> nextId, created |-> ses.schedules_created,
               understaffed |-> 0, overtime_warnings |-> 0, failed |-> FALSE]
    IN  /\ ses.pc = "dates"
        /\ ses.current_date <= ses.end_date
        /\ IF is_holiday(ses.current_date) \/ ses.shift_index > Len(deptShifts)
           THEN /\ sessions' = [sessions EXCEPT ![p].current_date = @ + 1, ![p].shift_index = 1]
                /\ UNCHANGED nextId
           ELSE \E g \in {ShiftLoop(g0, ses.department_id, ses.current_date,
                                    <<deptShifts[ses.shift_index]>>)} :
                   /\ sessions' = [sessions EXCEPT ![p].shift_index = @ + 1,
                                                   ![p].pending = @ \cup (g.rows \ view),
                                                   ![p].schedules_created = g.created]
                   /\ nextId' = g.nid
        /\ lastDeleted' = {}
        /\ UNCHANGED <<holidays, today, roles, shifts, employees, tables, response, nreq>>

\* line 5906 and the response: the commit makes the session's rows visible
CommitGenerate(p) ==
    LET ses == sessions[p]
    IN  /\ ses.pc = "dates"
        /\ ses.current_date > ses.end_date
        /\ schedules' = schedules \cup ses.pending
        /\ shifts' = NormalizedShifts(ses.department_id)
        /\ sessions' = [sessions EXCEPT ![p].pc = "done"]
        /\ response' = [GenResponse(ses.department_id, ses.start_date, ses.end_date, FALSE)
                           EXCEPT !.schedules_created = ses.schedules_created]
        /\ lastDeleted' = {}
        /\ UNCHANGED <<holidays, today, roles, employees, leaves, compoffs, tracking, details,
                       checkins, attendance, otreqs, nextId, nreq>>

\* department 1 with one role, two shifts of that role and two employees
InitConcurrent ==
    /\ holidays \in {{}, {1}}
    /\ today = 2
    /\ roles = [r \in {1} |-> Role(1, 60)]
    /\ shifts = <<Shift(1, 1, 540, 1080, 1, 2, TRUE, 0 .. 4), Shift(2, 1, 540, 1080, 1, 2, TRUE, 0 .. 4)>>
    /\ employees = [e \in {1, 2} |-> Employee(1, 1)]
    /\ tracking = [e \in {1, 2} |-> NoTracking]
    /\ EmptyTables

SessionBegins ==
    \E p \in DOMAIN sessions, start_date \in {0, 1} : BeginGenerate(p, start_date, ConcurrentDays - 1)

SessionSteps == \E p \in DOMAIN sessions : ShiftStep(p)

SessionCommits == \E p \in DOMAIN sessions : CommitGenerate(p)

NextConcurrent ==
    \/ SessionBegins
    \/ SessionSteps
    \/ SessionCommits

SpecConcurrent == InitConcurrent /\ [][NextConcurrent]_vars

-----------------------------------------------------------------------------
(* Specification of the generator among leave and comp-off: one department
   with two employees and two shifts, the first running every day of the week
   and the second from Wednesday on; employee 2, the second in catalog order,
   asks for leave and for comp-off days, the manager approves and generates
   or regenerates the week, in any order *)

MaxGeneratorRequests == 4

\* the leaves employee 2 asks for: <<leave_type, duration_type, start_date, end_date>>
GeneratorLeaveInputs == {<<"paid", "half_day_afternoon", 1, 1>>, <<"paid", "full_day", 3, 3>>,
                         <<"comp_off", "full_day", 5, 5>>}

AskLeave ==
    /\ nreq < MaxGeneratorRequests
    /\ \E r \in GeneratorLeaveInputs : create_leave_request(2, r[3], r[4], r[1], r[2])
    /\ nreq' = nreq + 1
    /\ lastDeleted' = {}
    /\ UNCHANGED <<config, schedules, nextId, compoffs, tracking, details, checkins, attendance, otreqs>>

GrantLeave ==
    /\ nreq < MaxGeneratorRequests
    /\ \E leave_request \in leaves : approve_leave(leave_request)
    /\ nreq' = nreq + 1
    /\ UNCHANGED <<config, compoffs, otreqs>>

AskCompOff ==
    /\ nreq < MaxGeneratorRequests
    /\ create_comp_off_request(2, 0)
    /\ nreq' = nreq + 1
    /\ lastDeleted' = {}
    /\ UNCHANGED <<config, schedules, nextId, leaves, tracking, details, checkins, attendance, otreqs>>

GrantCompOff ==
    /\ nreq < MaxGeneratorRequests
    /\ \E comp_off \in compoffs : approve_comp_off(comp_off)
    /\ nreq' = nreq + 1
    /\ lastDeleted' = {}
    /\ UNCHANGED <<config, leaves, checkins, attendance, otreqs>>

GenerateRoster ==
    /\ nreq < MaxGeneratorRequests
    /\ \E regenerate \in BOOLEAN : generate_schedules(1, 0, 6, regenerate)
    /\ nreq' = nreq + 1
    /\ UNCHANGED <<holidays, today, roles, employees, leaves, tracking, details, otreqs, sessions>>

\* shift 1 admits 0, 1 or 2 employees a day; employee 2 has no daily_max_hours
InitGenerator ==
    /\ holidays \in {{}, {1}}
    /\ today = 2
    /\ roles = [r \in {1} |-> Role(1, 60)]
    /\ \E max_emp \in {0, 1, 2} :
          shifts = <<Shift(1, 1, 540, 1080, 1, max_emp, TRUE, 0 .. 6), Shift(2, 1, 600, 1080, 2, 2, TRUE, 2 .. 6)>>
    /\ employees = [e \in {1, 2} |-> IF e = 1 THEN Employee(1, 1)
                                     ELSE [Employee(1, 1) EXCEPT !.daily_max_hours = 0]]
    /\ tracking = [e \in {1, 2} |-> NoTracking]
    /\ EmptyTables

NextGenerator ==
    \/ AskLeave
    \/ GrantLeave
    \/ AskCompOff
    \/ GrantCompOff
    \/ GenerateRoster

SpecGenerator == InitGenerator /\ [][NextGenerator]_vars

-----------------------------------------------------------------------------
(* Specification of repeated generation: the same department, where either
   employee asks for a comp-off day on the Wednesday or on the Saturday, the
   manager approves, and the week is generated and regenerated *)

AskCompOffDay ==
    /\ nreq < MaxGeneratorRequests
    /\ \E employee_id \in DOMAIN employees, comp_off_date \in {2, 5} :
          create_comp_off_request(employee_id, comp_off_date)
    /\ nreq' = nreq + 1
    /\ lastDeleted' = {}
    /\ UNCHANGED <<config, schedules, nextId, leaves, tracking, details, checkins, attendance, otreqs>>

NextRegenerate ==
    \/ AskCompOffDay
    \/ GrantCompOff
    \/ GenerateRoster

SpecRegenerate == InitGenerator /\ [][NextRegenerate]_vars

-----------------------------------------------------------------------------
(* Specification of the shift catalogue: the manager of department 1 rewrites
   the times of its two shifts (a day shift, a night shift across midnight, a
   start that is not HH:MM) and generates or regenerates the week *)

MaxShiftRequests == 4

\* <<start_time, end_time>>: 09:00-18:00, 22:00-06:00, "9am"-18:00
ShiftTimeInputs == {<<540, 1080>>, <<1320, 360>>, <<Unparsable, 1080>>}

\* PUT /shifts/{shift_id}: the provided fields are stored as they come
update_shift(shift_id, start_time, end_time) ==
    /\ shifts' = [i \in DOMAIN shifts |->
                    IF shifts[i].id = shift_id
                    THEN [shifts[i] EXCEPT !.start_time = start_time, !.end_time = end_time]
                    ELSE shifts[i]]
    /\ response' = [op |-> "update_shift", code |-> 200, id |-> shift_id]
    /\ lastDeleted' = {}
    /\ UNCHANGED <<holidays, today, roles, employees, sessions, tables, nextId>>

UpdateShift ==
    /\ nreq < MaxShiftRequests
    /\ \E i \in DOMAIN shifts, t \in ShiftTimeInputs : update_shift(shifts[i].id, t[1], t[2])
    /\ nreq' = nreq + 1

GenerateWithShifts ==
    /\ nreq < MaxShiftRequests
    /\ \E regenerate \in BOOLEAN : generate_schedules(1, 0, NumDays - 1, regenerate)
    /\ nreq' = nreq + 1
    /\ UNCHANGED <<holidays, today, roles, employees, leaves, tracking, details, otreqs, sessions>>

InitShiftTimes ==
    /\ holidays \in {{}, {1}}
    /\ today = 2
    /\ roles = [r \in {1} |-> Role(1, 60)]
    /\ shifts = <<Shift(1, 1, 540, 1080, 1, 1, TRUE, 0 .. 6), Shift(2, 1, 540, 1080, 1, 1, TRUE, 0 .. 6)>>
    /\ employees = [e \in {1, 2} |-> Employee(1, 1)]
    /\ tracking = [e \in {1, 2} |-> NoTracking]
    /\ EmptyTables

NextShiftTimes ==
    \/ UpdateShift
    \/ GenerateWithShifts

SpecShiftTimes == InitShiftTimes /\ [][NextShiftTimes]_vars

-----------------------------------------------------------------------------
(* Specification of the validators as functions: the table holds any week of
   rows of employee 1 (a status or no row on each day, Monday to Sunday), a
   row of the week after and a row of employee 2; the validators are asked
   about a Tuesday, a Friday, a Saturday and a Sunday, with and without a row
   to exclude *)

\* what a day of employee 1's week may hold
DayChoices(d) ==
    IF d = 1 THEN {"scheduled"}
    ELSE IF d = 2 THEN {"none", "scheduled", "completed"}
    ELSE IF d = 4 THEN {"none", "scheduled", "comp_off_earned", "leave_half_morning"}
    ELSE IF d >= 5 THEN {"none", "scheduled", "comp_off_taken"}
    ELSE {"none", "scheduled"}

\* the row of employee 1 on day d has primary key d + 1
WeekTable(f) ==
    {ScheduleRow(d + 1, 1, 1, 1, 1, d, 540, 1080, f[d]) : d \in {x \in DOMAIN f : f[x] # "none"}}
        \cup {ScheduleRow(20, 1, 1, 1, 1, 7, 540, 1080, "scheduled"),
              ScheduleRow(21, 2, 2, 2, 2, 1, 540, 1080, "scheduled")}

InitValidators ==
    /\ holidays \in {{}, {2}}
    /\ today = 2
    /\ roles = [r \in {1, 2} |-> Role(r, 60)]
    /\ shifts = <<Shift(1, 1, 540, 1080, 1, 2, TRUE, 0 .. 6), Shift(2, 2, 540, 1080, 1, 2, TRUE, 0 .. 6)>>
    /\ employees = [e \in {1, 2} |-> Employee(e, e)]
    /\ tracking = [e \in {1, 2} |-> NoTracking]
    /\ nextId = 22 /\ leaves = {} /\ compoffs = {}
    /\ details = << >> /\ checkins = {} /\ attendance = {} /\ otreqs = {}
    /\ response = [op |-> "none", code |-> 0]
    /\ lastDeleted = {} /\ nreq = 0
    /\ sessions = [p \in Requests |-> IdleSession]
    /\ \E f \in [0 .. 6 -> UNION {DayChoices(d) : d \in 0 .. 6}] :
          /\ \A d \in 0 .. 6 : f[d] \in DayChoices(d)
          /\ schedules = WeekTable(f)

\* a call of validate_5_shifts_per_week
QuotaQuery ==
    /\ \E target_date \in {1, 5, 6}, exclude_schedule_id \in {NULL, 1, 6} :
          response' = [op |-> "validate_5_shifts_per_week", employee_id |-> 1,
                       target_date |-> target_date, exclude_schedule_id |-> exclude_schedule_id,
                       ok |-> validate_5_shifts_per_week(schedules, 1, target_date, exclude_schedule_id)]
    /\ UNCHANGED <<config, tables, nextId, lastDeleted, nreq>>

\* a call of validate_consecutive_shifts_limit next to the generator's own test
ConsecutiveQuery ==
    /\ \E target_date \in {4, 5, 6} :
          response' = [op |-> "validate_consecutive_shifts_limit", employee_id |-> 1,
                       target_date |-> target_date,
                       ok |-> validate_consecutive_shifts_limit(schedules, 1, target_date, NULL,
                                                                DefaultMaxConsecutive),
                       generator_ok |-> GeneratorConsecutiveOk(schedules, 1, target_date)]
    /\ UNCHANGED <<config, tables, nextId, lastDeleted, nreq>>

NextValidators ==
    \/ QuotaQuery
    \/ ConsecutiveQuery

SpecValidators == InitValidators /\ [][NextValidators]_vars

-----------------------------------------------------------------------------
(* Properties of the scheduling requests *)

\* C1: after any sequence of schedule-writing requests served one at a time,
\* every (employee, date) pair has at most one Schedule row whose status is
\* not 'cancelled'
C1_NoDoubleShift ==
    \A s \in schedules, t \in schedules :
        (s.emp = t.emp /\ s.date = t.date /\ s.status # "cancelled" /\ t.status # "cancelled")
            => s.id = t.id

QuotaStatuses == {"scheduled", "leave", "comp_off_taken", "comp_off_earned"}

Mondays == {d \in Dates : weekday(d) = 0}

\* C2: for every employee and every Monday-to-Sunday week, the number of the
\* employee's rows dated Monday to Friday with status scheduled, leave,
\* comp_off_taken or comp_off_earned is at most get_shifts_required_for_week
C2_WeekdayQuota ==
    \A e \in DOMAIN employees, week_start \in Mondays :
        Cardinality({s \in schedules : /\ s.emp = e
                                       /\ s.date >= week_start /\ s.date <= week_start + 4
                                       /\ s.status \in QuotaStatuses})
            <= get_shifts_required_for_week(week_start)

\* the longest run of calendar-consecutive dates on which the employee holds a
\* row with a counting status, over all of the employee's rows
LongestRunOf(rows, e) ==
    LET ds == {s.date : s \in {x \in rows : x.emp = e /\ x.status \in ConsecutiveStatuses}}
    IN  IF ds = {} THEN 0 ELSE LongestRun(ds)

RunsWithinLimit(rows) == \A e \in DOMAIN employees : LongestRunOf(rows, e) <= DefaultMaxConsecutive

\* C3: a request of generate_schedules, create_schedule or update_schedule that
\* inserts a row or changes a row's date, served in a state where no employee
\* has a run of counting rows longer than the maximum (5), leaves no employee
\* with such a run
C3_ConsecutiveRun ==
    [][(/\ response'.op \in {"generate_schedules", "create_schedule", "update_schedule"}
        /\ schedules' # schedules
        /\ RunsWithinLimit(schedules))
          => RunsWithinLimit(schedules')]_vars

\* the Monday-to-Friday holidays of the week that starts on week_start
WeekdayHolidaysOf(week_start) == {d \in holidays : d >= week_start /\ d <= week_start + 4}

\* C4: for every Monday and every placement of public holidays,
\* get_shifts_required_for_week is max(4, 5 - h), h the number of
\* Monday-to-Friday holidays of the week (so holidays on its Saturday or
\* Sunday change nothing), and get_week_info reports the same required_shifts
C4_RequiredShifts ==
    response.op = "week_query" =>
        /\ response.required_shifts = Max(4, 5 - Cardinality(WeekdayHolidaysOf(response.week_start)))
        /\ response.week_info.required_shifts = response.required_shifts
        /\ response.week_info.weekday_holiday_count = Cardinality(WeekdayHolidaysOf(response.week_start))

\* a week with two weekday holidays (the floor of 4 applies) and a holiday on
\* its Saturday has been queried
C4_Witness ==
    /\ response.op = "week_query"
    /\ Cardinality(WeekdayHolidaysOf(response.week_start)) = 2
    /\ is_holiday(response.week_start + 5)
    /\ response.required_shifts = 4

\* the row belongs to the department and the date range the last generate
\* request named (r is that request's response)
InRequestRange(s, r) == s.dept = r.department /\ s.date >= r.start_date /\ s.date <= r.end_date

IdsOf(rows) == {s.id : s \in rows}

\* C5: a generate_schedules request with regenerate=true deletes exactly the
\* rows of the department dated in [start_date, end_date] whose status is
\* scheduled or comp_off_taken; every other row (in range with status leave,
\* leave_half_morning, leave_half_afternoon or comp_off_earned, out of range,
\* or of another department) is still present and unchanged afterwards
C5_RegenerateDeletesOnly ==
    [][(response'.op = "generate_schedules" /\ response'.regenerate)
         => /\ IdsOf(schedules) \ IdsOf(schedules')
                 = IdsOf({s \in schedules : InRequestRange(s, response')
                                            /\ s.status \in {"scheduled", "comp_off_taken"}})
            /\ \A s \in schedules :
                  (~InRequestRange(s, response') \/ s.status \notin {"scheduled", "comp_off_taken"})
                      => s \in schedules']_vars

\* a regeneration has deleted rows while rows of the same department outside
\* the range and rows of another department were in the table
C5_Witness ==
    /\ response.op = "generate_schedules"
    /\ response.regenerate
    /\ lastDeleted # {}
    /\ \E s \in schedules : s.dept = response.department /\ s.date < response.start_date
                            /\ s.id < nextId - response.schedules_created
    /\ \E s \in schedules : s.dept # response.department /\ s.date >= response.start_date

\* C6: a generate_schedules request with regenerate=false, served while a row
\* of any status exists for the department in [start_date, end_date], answers
\* success=false, requires_confirmation=true, schedules_created=0 and
\* existing_count = the number of those rows, and changes no row of any table
C6_ConfirmationNoMutation ==
    [][(/\ response'.op = "generate_schedules"
        /\ ~response'.regenerate
        /\ \E s \in schedules : InRequestRange(s, response'))
         => /\ response'.success = FALSE
            /\ response'.requires_confirmation = TRUE
            /\ response'.schedules_created = 0
            /\ response'.existing_count = Cardinality({s \in schedules : InRequestRange(s, response')})
            /\ UNCHANGED <<tables, nextId, shifts, roles, employees>>]_vars

\* the confirmation answer has been given for a range whose rows are leave
\* rows, not work shifts, while leave requests are on file
C6_Witness ==
    /\ response.op = "generate_schedules"
    /\ response.requires_confirmation
    /\ response.existing_count >= 2
    /\ leaves # {}
    /\ \E s \in schedules : InRequestRange(s, response) /\ s.status # "scheduled"

\* the first request of the scenario, a generation of the week, has been
\* served with break 60 min and max_emp = 2
ScenarioGenerated ==
    /\ nreq = 1
    /\ response.op = "generate_schedules"
    /\ roles[1].break_minutes = 60
    /\ shifts[1].max_emp = 2

ScheduledRowsOf(e) == {s \in schedules : s.emp = e /\ s.status = "scheduled"}

\* C7: from an empty schedule, with one role (break 60 min), one shift
\* 09:00-18:00 enabled Monday to Friday with max_emp = 2, two eligible
\* employees with the default caps, no leave and no holidays, generating the
\* Monday-to-Sunday week creates exactly 5 'scheduled' rows for each employee
\* (10 in total), no under-staffing warning and no overtime warning
C7_TwoEmployeeWeek ==
    (ScenarioGenerated /\ holidays = {})
        => /\ \A e \in DOMAIN employees : Cardinality(ScheduledRowsOf(e)) = 5
           /\ Cardinality(schedules) = 10
           /\ response.schedules_created = 10
           /\ response.warnings = 0
           /\ response.overtime_warnings = 0

C7_Witness ==
    /\ ScenarioGenerated
    /\ holidays = {}
    /\ Cardinality(schedules) = 10
    /\ \A d \in 0 .. 4 : \A e \in DOMAIN employees : \E s \in ScheduledRowsOf(e) : s.date = d

\* C8: in the same setup with exactly one Monday-to-Friday date a public
\* holiday, the generation creates exactly 4 'scheduled' rows per employee,
\* none on the holiday, and afterwards validate_5_shifts_per_week refuses a
\* Saturday and a Sunday of the week for each employee
C8_HolidayWeek ==
    (ScenarioGenerated /\ Cardinality(holidays \cap (0 .. 4)) = 1)
        => /\ \A e \in DOMAIN employees :
                 /\ Cardinality(ScheduledRowsOf(e)) = 4
                 /\ Cardinality({s \in schedules : s.emp = e}) = 4
                 /\ \A d \in {5, 6} : ~validate_5_shifts_per_week(schedules, e, d, NULL)
           /\ \A s \in schedules : ~is_holiday(s.date)
           /\ response.schedules_created = 8

C8_Witness ==
    /\ ScenarioGenerated
    /\ holidays = {0}
    /\ Cardinality(schedules) = 8
    /\ \A e \in DOMAIN employees : ~validate_5_shifts_per_week(schedules, e, 5, NULL)

-----------------------------------------------------------------------------
(* Properties of check-out *)

ApprovedOvertime(employee_id, d) ==
    {o \in otreqs : o.emp = employee_id /\ o.request_date = d /\ o.status = "approved"}

\* the last request was a successful check-out that closed check-in c
JustCheckedOut(c) == response.op = "check_out" /\ response.code = 200 /\ c.id = response.id

\* the case of C9: one approved request with a window, and a check-in linked
\* to schedule sch, which has an end time
WindowCase(c, sch) ==
    /\ sch.id = c.schedule_id
    /\ sch.end_time # NULL
    /\ Cardinality(ApprovedOvertime(c.emp, c.date)) = 1
    /\ \A o \in ApprovedOvertime(c.emp, c.date) : o.from_time # NULL /\ o.to_time # NULL

\* minutes of the check-out's stay inside the approved window after the shift
WindowMinutes(c, sch, o) ==
    Max(0, Min(c.check_out_time, o.to_time) - Max(sch.end_time, o.from_time))

\* C9 (as amended): at check_out, with one approved OvertimeRequest that has
\* from_time and to_time and a check-in linked to a schedule with an end
\* time, the persisted overtime_hours is
\* min(max(0, min(checkout, window_end) - max(shift_end, window_start)), request_hours)
\* rounded to two decimals; check-in 09:00, check-out 19:30, shift end 18:00,
\* window 18:00-20:00, 1.5 h approved, break 60 min gives worked_hours 9.5
\* and overtime_hours 1.5
C9_WindowOvertime ==
    \A c \in checkins, sch \in schedules :
        (JustCheckedOut(c) /\ WindowCase(c, sch))
            => /\ AttendanceOf(attendance, c.emp, c.date) # {}
               /\ \A a \in AttendanceOf(attendance, c.emp, c.date), o \in ApprovedOvertime(c.emp, c.date) :
                     /\ a.overtime_hours = Min(RoundHours(WindowMinutes(c, sch, o)), o.request_hours)
                     /\ (/\ c.check_in_time = 540 /\ c.check_out_time = 1170 /\ sch.end_time = 1080
                         /\ o.from_time = 1080 /\ o.to_time = 1200 /\ o.request_hours = 150
                         /\ roles[sch.role].break_minutes = 60)
                           => (a.worked_hours = 950 /\ a.overtime_hours = 150)

\* the example of C9 has happened
C9_Witness ==
    \E c \in checkins, sch \in schedules, a \in attendance :
        /\ JustCheckedOut(c) /\ WindowCase(c, sch)
        /\ c.check_in_time = 540 /\ c.check_out_time = 1170 /\ sch.end_time = 1080
        /\ \E o \in ApprovedOvertime(c.emp, c.date) :
              o.from_time = 1080 /\ o.to_time = 1200 /\ o.request_hours = 150
        /\ a.emp = c.emp /\ a.date = c.date
        /\ a.worked_hours = 950 /\ a.overtime_hours = 150

\* C9 as stated, without the rounding: the persisted overtime_hours is
\* exactly min(max(0, min(checkout, window_end) - max(shift_end, window_start)), request_hours)
\* (hours; overtime_hours and request_hours are in hundredths, the window in minutes)
C9_ExactOvertime ==
    \A c \in checkins, sch \in schedules :
        (JustCheckedOut(c) /\ WindowCase(c, sch))
            => \A a \in AttendanceOf(attendance, c.emp, c.date), o \in ApprovedOvertime(c.emp, c.date) :
                  IF WindowMinutes(c, sch, o) * 100 <= o.request_hours * 60
                  THEN a.overtime_hours * 60 = WindowMinutes(c, sch, o) * 100
                  ELSE a.overtime_hours = o.request_hours

\* C10: under any ordering of check_in, generate_schedules with
\* regenerate=true, overtime approval and check_out, if an approved
\* OvertimeRequest exists for (employee, date) when check_out runs, the
\* overtime_hours persisted on that date's Attendance row is at most the
\* request's request_hours
C10_OvertimeWithinApproval ==
    \A c \in checkins :
        JustCheckedOut(c)
            => \A a \in AttendanceOf(attendance, c.emp, c.date), o \in ApprovedOvertime(c.emp, c.date) :
                  a.overtime_hours <= o.request_hours

-----------------------------------------------------------------------------
(* Properties of the comp-off ledger *)

\* C11: after every earn (approve_comp_off) and every use (approve_leave of
\* a comp_off leave), available_days of a CompOffTracking row equals
\* max(0, earned_days - used_days - expired_days)
C11_AvailableDays ==
    \A e \in DOMAIN tracking :
        tracking[e].exists
            => tracking[e].available_days
                   = Max(0, tracking[e].earned_days - tracking[e].used_days - tracking[e].expired_days)

DetailCount(log, e, type) ==
    Cardinality({i \in DOMAIN log : log[i].emp = e /\ log[i].type = type})

DetailsMatchTracking ==
    \A e \in DOMAIN tracking :
        tracking[e].exists
            => /\ DetailCount(details, e, "earned") = tracking[e].earned_days
               /\ DetailCount(details, e, "used") = tracking[e].used_days

\* C12: after any sequence of approve_comp_off and approve_leave(comp_off)
\* requests, for every employee with a CompOffTracking row the number of
\* 'earned' CompOffDetail rows equals earned_days and the number of 'used'
\* rows equals used_days, and every request leaves the existing
\* CompOffDetail rows as they were (the log only grows at its end)
C12_DetailLedger ==
    [][/\ Len(details') >= Len(details)
       /\ SubSeq(details', 1, Len(details)) = details
       /\ DetailsMatchTracking']_vars

\* one day earned and a leave of two or more days used, all of it logged
C12_Witness ==
    /\ tracking[1].exists
    /\ tracking[1].earned_days >= 1
    /\ tracking[1].used_days >= 2
    /\ DetailCount(details, 1, "used") >= 2
    /\ DetailCount(details, 1, "earned") >= 1

\* C13: approve_comp_off for a CompOffRequest on date D creates exactly one
\* Schedule row for (employee, D), with status comp_off_earned, increments
\* earned_days by 1 and appends one CompOffDetail of type 'earned' whose
\* earned_month is the month of D
C13_ApproveCreatesEarnedRow ==
    (response.op = "approve_comp_off" /\ response.code = 200)
        => \A c \in compoffs :
              c.id = response.id
                  => /\ Cardinality({s \in schedules : s.id = c.schedule_id}) = 1
                     /\ \A s \in schedules :
                           s.id = c.schedule_id
                               => (s.emp = c.emp /\ s.date = c.comp_off_date /\ s.status = "comp_off_earned")
                     /\ tracking[c.emp].exists
                     /\ tracking[c.emp].earned_days = DetailCount(details, c.emp, "earned")
                     /\ details[Len(details)] = [emp |-> c.emp, type |-> "earned", date |-> c.comp_off_date,
                                                 earned_month |-> month_of(c.comp_off_date)]

\* every comp-off day the employee has earned was earned in a month before
\* the current one, and at least one day is unused
OnlyExpiredBalance(e) ==
    /\ tracking[e].exists
    /\ tracking[e].earned_days > tracking[e].used_days
    /\ \A i \in DOMAIN details :
          (details[i].emp = e /\ details[i].type = "earned") => details[i].earned_month < month_of(today)

\* C14: approve_leave of a comp_off leave answers with the expiry error (400),
\* creates no comp_off_taken row and leaves used_days alone, whenever the
\* employee's only unused comp-off was earned in a month before the current one
C14_ExpiredBalanceRefused ==
    [][(/\ response'.op = "approve_leave"
        /\ \A l \in leaves : l.leave_type = "comp_off" /\ OnlyExpiredBalance(l.emp))
         => /\ response'.code = 400
            /\ schedules' = schedules
            /\ tracking' = tracking]_vars

-----------------------------------------------------------------------------
(* Properties of concurrent generation *)

\* the 'scheduled' rows session p adds in the step
NewScheduled(p) ==
    {s \in sessions'[p].pending \ sessions[p].pending : s.status = "scheduled"}

\* C15: two generate_schedules requests for the same department and date
\* range are not mutually excluded.  Each request adds a 'scheduled' row for
\* an (employee, date) only when the rows it sees, the committed ones and its
\* own, hold none for that pair, and never two in one step; the rows another
\* request has added and not committed do not hold it back (the witness:
\* both requests have added a 'scheduled' row for one (employee, date))
C15_SessionsNotExcluded ==
    [][\A p \in DOMAIN sessions :
          \A s \in NewScheduled(p) :
              /\ RowsOn(schedules \cup sessions[p].pending, s.emp, s.date) = {}
              /\ \A t \in NewScheduled(p) : (t.emp = s.emp /\ t.date = s.date) => t = s]_vars

\* both requests ran over the same range and committed, and the table holds
\* a 'scheduled' row of each for the same (employee, date)
C15_Witness ==
    /\ sessions[1].pc = "done" /\ sessions[2].pc = "done"
    /\ sessions[1].start_date = sessions[2].start_date
    /\ sessions[1].end_date = sessions[2].end_date
    /\ \E s \in sessions[1].pending, t \in sessions[2].pending :
          /\ s \in schedules /\ t \in schedules
          /\ s.id # t.id
          /\ s.emp = t.emp /\ s.date = t.date
          /\ s.status = "scheduled" /\ t.status = "scheduled"

-----------------------------------------------------------------------------
(* Properties of the generator among leave and comp-off *)

\* the step is a run of generate_schedules
GeneratorStep == response'.op = "generate_schedules" /\ nreq' = nreq + 1

\* the rows the run created (primary keys are handed out in order of creation)
CreatedByRun == {s \in schedules' : s.id >= nextId}

\* C16: generate_schedules creates no Schedule row, of any status, on a date
\* that is a public holiday, whatever the leave and comp-off requests are
C16_NoRowOnHoliday ==
    [][GeneratorStep => \A s \in CreatedByRun : s.date \notin holidays]_vars

\* a run that created rows over a range holding a holiday on which an
\* employee has an approved leave
C16_Witness ==
    /\ response.op = "generate_schedules"
    /\ response.schedules_created > 0
    /\ \E h \in holidays :
          /\ response.start_date <= h /\ h <= response.end_date
          /\ \E l \in leaves : l.status = "approved" /\ l.start_date <= h /\ h <= l.end_date

\* the 'scheduled' rows the run created for a shift on a date
ScheduledFor(shift_id, d) ==
    {s \in CreatedByRun : s.status = "scheduled" /\ s.shift = shift_id /\ s.date = d}

\* C17: for every active shift S, every non-negative S.max_emp and every date
\* D of the range, one run creates at most S.max_emp 'scheduled' rows for (S, D)
C17_AtMostMaxEmp ==
    [][GeneratorStep
         => \A i \in DOMAIN shifts : \A d \in response'.start_date .. response'.end_date :
               Cardinality(ScheduledFor(shifts[i].id, d)) <= shifts[i].max_emp]_vars

\* the rows the run found when it started to assign: those of before without
\* the rows a regeneration deleted
KeptByRun == {s \in schedules' : s.id < nextId}

\* C18: generate_schedules never creates a row for an (employee, date) for
\* which a Schedule row of any status already exists, one added earlier in
\* the same run for another shift included: every row the run creates is the
\* only row of its (employee, date) among the rows kept and created
C18_OneRowPerEmployeeDate ==
    [][GeneratorStep
         => \A s \in CreatedByRun :
               /\ \A t \in KeptByRun : ~(t.emp = s.emp /\ t.date = s.date)
               /\ \A t \in CreatedByRun : (t.emp = s.emp /\ t.date = s.date) => t = s]_vars

\* a regeneration that created rows of both shifts on one date, next to rows
\* of other statuses it had to leave alone
C18_Witness ==
    /\ response.op = "generate_schedules"
    /\ response.regenerate
    /\ \E s \in schedules, t \in schedules :
          /\ s.date = t.date /\ s.shift = 1 /\ t.shift = 2
          /\ s.status = "scheduled" /\ t.status = "scheduled"
    /\ \E s \in schedules : s.status \in {"leave", "leave_half_afternoon"}
    /\ response.schedules_created > 0

\* the approved requests of an employee that cover a date
ApprovedLeaves(e, d) ==
    {l \in leaves : l.emp = e /\ l.start_date <= d /\ d <= l.end_date /\ l.status = "approved"}

ApprovedCompOffs(e, d) ==
    {c \in compoffs : c.emp = e /\ c.comp_off_date = d /\ c.status = "approved"}

\* the shifts of the department that run on a date of the range and for
\* which the employee is eligible
ShiftsFor(e, d) ==
    {i \in DOMAIN shifts :
        /\ shifts[i].is_active /\ roles[shifts[i].role].dept = response'.department
        /\ shifts[i].configured /\ weekday(d) \in shifts[i].enabled
        /\ employees[e].dept = response'.department
        /\ (employees[e].role = NULL \/ employees[e].role = shifts[i].role)}

\* the dates the run works through: none when it only asks for confirmation
ProcessedDates ==
    IF response'.requires_confirmation THEN {}
    ELSE {d \in response'.start_date .. response'.end_date : d \notin holidays}

\* the status the row of a leave or comp-off day is to have
ExpectedLeaveStatus(e, d) ==
    IF ApprovedCompOffs(e, d) # {} THEN "comp_off_earned"
    ELSE IF \E l \in ApprovedLeaves(e, d) : l.leave_type = "comp_off" THEN "comp_off_taken"
    ELSE IF \E l \in ApprovedLeaves(e, d) : l.duration_type = "half_day_morning" THEN "leave_half_morning"
    ELSE IF \E l \in ApprovedLeaves(e, d) : l.duration_type = "half_day_afternoon" THEN "leave_half_afternoon"
    ELSE "leave"

\* the run created exactly one row for (e, d), and it has the expected status
OneLeaveRow(e, d) ==
    /\ Cardinality({s \in CreatedByRun : s.emp = e /\ s.date = d}) = 1
    /\ \A s \in CreatedByRun : (s.emp = e /\ s.date = d) => s.status = ExpectedLeaveStatus(e, d)

\* the pairs (shift, date) that end below min_emp when only the 'scheduled'
\* rows created for them are counted
Understaffed ==
    {<<i, d>> \in (DOMAIN shifts) \X ProcessedDates :
        /\ shifts[i].configured /\ weekday(d) \in shifts[i].enabled
        /\ Cardinality(ScheduledFor(shifts[i].id, d)) < shifts[i].min_emp}

\* the employee loop of shift i on date d gets as far as employee e: it
\* stops after the assignment that brings assigned_count to max_emp
LoopReaches(i, e, d) ==
    Cardinality({s \in ScheduledFor(shifts[i].id, d) : s.emp < e}) < Max(1, shifts[i].max_emp)

OnLeave(e, d) == ApprovedLeaves(e, d) # {} \/ ApprovedCompOffs(e, d) # {}

RowsBefore(s) == {r \in schedules' : r.id < s.id}

\* the rows of the employee in the week of the date that count for hours
CountedRows(rows, e, d) ==
    {r \in rows : /\ r.emp = e
                  /\ r.date >= d - (d % 7) /\ r.date <= d - (d % 7) + 6
                  /\ r.status \in {"scheduled", "completed", "comp_off_earned"}}

\* gross minutes of a 'scheduled' row less the break of its role
CandidateMinutes(s) == (s.end_time - s.start_time) - roles[s.role].break_minutes

\* C20: every 'scheduled' row the generator creates satisfies, at its
\* creation: the work hours of the employee's scheduled / completed /
\* comp_off_earned rows of the week plus the candidate's are at most
\* weekly_hours; the same sum over the date plus the candidate's is at most
\* daily_max_hours (8 when unset); validate_5_shifts_per_week passes.  Work
\* hours are gross duration less the role's break; leave and comp_off_taken
\* rows contribute none
C20_HoursAtCreation ==
    [][GeneratorStep
         => \A s \in CreatedByRun :
               s.status = "scheduled"
                   => LET week == CountedRows(RowsBefore(s), s.emp, s.date)
                          daily_max == IF employees[s.emp].daily_max_hours = 0 THEN 8
                                       ELSE employees[s.emp].daily_max_hours
                      IN  /\ SumWorkMinutes(week) + CandidateMinutes(s) <= employees[s.emp].weekly_hours * 60
                          /\ SumWorkMinutes({r \in week : r.date = s.date}) + CandidateMinutes(s) <= daily_max * 60
                          /\ validate_5_shifts_per_week(RowsBefore(s), s.emp, s.date, NULL)]_vars

\* a run gave an employee a whole-day comp_off_earned row and then shifts
\* until one more shift would have passed weekly_hours
C20_Witness ==
    /\ response.op = "generate_schedules"
    /\ response.schedules_created > 0
    /\ \E c \in schedules :
          /\ c.status = "comp_off_earned" /\ c.start_time = 0 /\ c.end_time = 1439
          /\ \E s \in schedules : s.emp = c.emp /\ s.status = "scheduled" /\ s.id > c.id
          /\ SumWorkMinutes(CountedRows(schedules, c.emp, c.date)) <= employees[c.emp].weekly_hours * 60
          /\ SumWorkMinutes(CountedRows(schedules, c.emp, c.date)) + 420 > employees[c.emp].weekly_hours * 60

-----------------------------------------------------------------------------
(* Properties of the generator's day configuration *)

\* the weekdays a shift is to run on: all seven when schedule_config is
\* missing or empty, else those whose entry has enabled = true
RunsOn(shift, d) == ~shift.configured \/ (d % 7) \in shift.enabled

\* the Shift row of a Schedule row, as it was before the request
ShiftOf(s) == CHOOSE i \in DOMAIN shifts : shifts[i].id = s.shift

\* the department's shifts that have an eligible employee
StaffedShifts(department_id) ==
    {i \in DOMAIN shifts : /\ shifts[i].is_active /\ roles[shifts[i].role].dept = department_id
                           /\ \E e \in DOMAIN employees :
                                 /\ employees[e].dept = department_id
                                 /\ (employees[e].role = NULL \/ employees[e].role = shifts[i].role)}

-----------------------------------------------------------------------------
(* Properties of the validators *)

\* the rows of the employee in the week of the date, one row left out
QuotaRows(e, d, x) ==
    {s \in schedules : /\ s.emp = e /\ s.date >= d - (d % 7) /\ s.date <= d - (d % 7) + 6
                       /\ (x = NULL \/ s.id # x)}

QuotaWeekday(e, d, x) ==
    Cardinality({s \in QuotaRows(e, d, x) :
                    /\ s.date % 7 <= 4
                    /\ s.status \in {"scheduled", "leave", "comp_off_taken", "comp_off_earned",
                                     "leave_half_morning", "leave_half_afternoon"}})

QuotaWeekend(e, d, x) ==
    Cardinality({s \in QuotaRows(e, d, x) :
                    /\ s.date % 7 >= 5
                    /\ s.status \in {"scheduled", "leave", "leave_half_morning", "leave_half_afternoon"}})

QuotaRequired(d) ==
    Max(4, 5 - Cardinality({h \in holidays : h >= d - (d % 7) /\ h <= d - (d % 7) + 4}))

\* C22: validate_5_shifts_per_week(employee, date, exclude_id) returns
\* ok = false for a Saturday / Sunday target iff weekday_coverage >= required
\* or weekday_coverage + weekend_regular_shifts >= required, and for a Monday
\* to Friday target iff weekday_coverage >= required; the two counts are over
\* the week's rows of the stated statuses, without the row named by exclude_id
C22_QuotaDecision ==
    response.op = "validate_5_shifts_per_week"
        => LET e == response.employee_id
               d == response.target_date
               x == response.exclude_schedule_id
               wc == QuotaWeekday(e, d, x)
               we == QuotaWeekend(e, d, x)
           IN  IF d % 7 >= 5
               THEN (~response.ok) <=> (wc >= QuotaRequired(d) \/ wc + we >= QuotaRequired(d))
               ELSE (~response.ok) <=> (wc >= QuotaRequired(d))

\* a Saturday is refused on the sum only, and only because the excluded row
\* is not the Sunday shift that completes it
C22_Witness ==
    /\ response.op = "validate_5_shifts_per_week"
    /\ response.target_date = 5
    /\ response.exclude_schedule_id = 1
    /\ ~response.ok
    /\ QuotaWeekday(1, 5, 1) < QuotaRequired(5)
    /\ QuotaWeekend(1, 5, 1) > 0
    /\ \E s \in schedules : s.id = 1 /\ s.status = "scheduled"
    /\ \E s \in schedules : s.emp = 1 /\ s.date = 5 /\ s.status = "comp_off_taken"

\* C23: on the same rows the consecutive-day check of generate_schedules skips
\* the candidate exactly when validate_consecutive_shifts_limit(employee,
\* date, max_consecutive = 5) answers ok = false
C23_SameConsecutiveDecision ==
    response.op = "validate_consecutive_shifts_limit"
        => ((~response.generator_ok) <=> (~response.ok))

\* C24: a POST /schedules request that passes the weekly-quota and the
\* consecutive-day validators never ends in an unhandled error: it either
\* answers requires_overtime_approval and persists no row, or persists
\* exactly one 'scheduled' row
C24_CreateScheduleAnswers ==
    [][(/\ response'.op = "create_schedule"
        /\ nreq' = nreq + 1
        /\ response'.code # 400)
          => /\ response'.code # 500
             /\ \/ schedules' = schedules
                \/ \E s \in schedules' \ schedules :
                      schedules' = schedules \cup {s} /\ s.status = "scheduled"]_vars

\* C25: generate_schedules with regenerate = true is all-or-nothing: when it
\* ends in an error after the pre-check, the Schedule, Attendance, CheckInOut
\* and CompOffRequest rows are the same as before the request
C25_RegenerateAllOrNothing ==
    [][(/\ response'.op = "generate_schedules"
        /\ nreq' = nreq + 1
        /\ response'.regenerate
        /\ response'.code = 500)
          => /\ schedules' = schedules
             /\ attendance' = attendance
             /\ checkins' = checkins
             /\ compoffs' = compoffs]_vars

RowKeys(S) == {<<s.emp, s.date, s.shift, s.status>> : s \in S}

\* the request just served and the one before it are both completed
\* regenerations of the same department and range
SecondRegenerate ==
    /\ response.op = "generate_schedules" /\ response.regenerate /\ response.code = 200
    /\ response'.op = "generate_schedules" /\ response'.regenerate /\ response'.code = 200
    /\ nreq' = nreq + 1
    /\ response'.department = response.department
    /\ response'.start_date = response.start_date
    /\ response'.end_date = response.end_date

\* C26: running generate_schedules with regenerate = true twice in succession
\* on the same department and range, with no other request between, leaves
\* the same set of (employee, date, shift, status) rows after the second run
\* as after the first
C26_RegenerateTwice ==
    [][SecondRegenerate => RowKeys(schedules') = RowKeys(schedules)]_vars

\* the request just served approved a comp-off request that was approved before
Reapproval ==
    /\ response'.op = "approve_comp_off"
    /\ response'.code = 200
    /\ nreq' = nreq + 1
    /\ \E c \in compoffs : c.id = response'.id /\ c.status = "approved"

\* C27: approve_comp_off on an already approved CompOffRequest changes
\* nothing: earned_days, available_days, the CompOffDetail log and the
\* Schedule rows stay as they were
C27_ReapprovalChangesNothing ==
    [][Reapproval => /\ tracking' = tracking
                     /\ details' = details
                     /\ schedules' = schedules]_vars

\* the comp_off_taken rows of the regenerated range that an approved comp-off
\* leave of the same employee covers
CoveredCompOffTaken ==
    {s \in schedules :
        /\ s.status = "comp_off_taken"
        /\ InRange(s, response'.department, response'.start_date, response'.end_date)
        /\ \E l \in leaves : /\ l.emp = s.emp /\ l.status = "approved"
                              /\ l.leave_type = "comp_off"
                              /\ l.start_date <= s.date /\ s.date <= l.end_date}

\* C28: when generate_schedules with regenerate = true completes, every
\* (employee, date) of the range that held a comp_off_taken row before the
\* request and is covered by an approved LeaveRequest of type comp_off holds
\* a comp_off_taken row again, whatever the weekday, the holidays and the
\* enabled days of the shifts
C28_CompOffTakenRestored ==
    [][(GeneratorStep /\ response'.regenerate /\ response'.code = 200)
          => \A s \in CoveredCompOffTaken :
                \E t \in schedules' : /\ t.emp = s.emp /\ t.date = s.date
                                       /\ t.status = "comp_off_taken"]_vars

\* minutes between check-in and check-out
GrossMinutes(c) == c.check_out_time - c.check_in_time

\* break_minutes of the role of the schedule the check-in is linked to
LinkedBreak(c) ==
    LET linked == {x \in schedules : x.id = c.schedule_id}
    IN  IF linked # {} THEN roles[(CHOOSE x \in linked : TRUE).role].break_minutes ELSE 0

\* checkout - checkin - break, floored at 0, in minutes
NetMinutes(c) ==
    Max(0, GrossMinutes(c) - (IF GrossMinutes(c) >= LinkedBreak(c) THEN LinkedBreak(c) ELSE 0))

\* h (hundredths of an hour) is the two-decimal rounding of m minutes
IsRounded(h, m) == 60 * h - 100 * m <= 30 /\ 100 * m - 60 * h <= 30

\* C30 (as amended): at check_out with no approved OvertimeRequest of the
\* day, the Attendance row holds worked_hours = max(0, checkout - checkin -
\* break) in hours rounded to two decimals, where break is the break_minutes
\* of the role of the linked schedule (0 without one) if the gross time is at
\* least that and 0 otherwise, and overtime_hours =
\* max(0, worked_hours - employee.daily_max_hours)
C30_CheckOutHours ==
    \A c \in checkins :
        (JustCheckedOut(c) /\ ApprovedOvertime(c.emp, c.date) = {})
            => /\ AttendanceOf(attendance, c.emp, c.date) # {}
               /\ \A a \in AttendanceOf(attendance, c.emp, c.date) :
                     /\ IsRounded(a.worked_hours, NetMinutes(c))
                     /\ a.overtime_hours = Max(0, a.worked_hours - employees[c.emp].daily_max_hours * 100)

\* a check-out at 18:20 after a check-in at 09:00 with a 60 minute break:
\* 8 h 20 min worked are stored as 8.33, the overtime as 0.33
C30_Witness ==
    \E c \in checkins, a \in attendance :
        /\ JustCheckedOut(c) /\ ApprovedOvertime(c.emp, c.date) = {}
        /\ c.check_in_time = 540 /\ c.check_out_time = 1100
        /\ LinkedBreak(c) = 60
        /\ a.emp = c.emp /\ a.date = c.date
        /\ a.worked_hours = 833 /\ a.overtime_hours = 33

\* C30 as stated, without the rounding: worked_hours is exactly
\* max(0, checkout - checkin - break) and overtime_hours exactly
\* max(0, worked_hours - daily_max_hours)
C30_ExactHours ==
    \A c \in checkins :
        (JustCheckedOut(c) /\ ApprovedOvertime(c.emp, c.date) = {})
            => \A a \in AttendanceOf(attendance, c.emp, c.date) :
                  /\ 60 * a.worked_hours = 100 * NetMinutes(c)
                  /\ 60 * a.overtime_hours
                        = Max(0, 100 * NetMinutes(c) - 6000 * employees[c.emp].daily_max_hours)

\* the 'scheduled' rows the run created: each passed the hour caps with the
\* gross duration of its shift
AssignedByRun == {s \in CreatedByRun : s.status = "scheduled"}

\* C29: for every shift start / end pair, also across midnight, the gross
\* duration generate_schedules uses in the hour-cap checks equals the
\* overnight-aware duration of the manual creation flow (end - start if
\* end > start, else 24 h - start + end) and is never negative
C29_GrossDuration ==
    [][GeneratorStep
          => \A s \in AssignedByRun :
                /\ total_shift_minutes(shifts[ShiftOf(s)])
                      = shift_hours(shifts[ShiftOf(s)].start_time, shifts[ShiftOf(s)].end_time)
                /\ total_shift_minutes(shifts[ShiftOf(s)]) >= 0]_vars

=============================================================================
